---- MODULE Spec2Model ----
(***************************************************************************)
(* SWAN DSL front end: parse(source, options) = lexer -> parser ->         *)
(* semantic checker.  The checker is modelled rule group by rule group,    *)
(* in the order SemanticChecker.check() calls them; each rule group is an  *)
(* operator computed the way the code computes it, and each call in        *)
(* check() is one action.                                                  *)
(*                                                                         *)
(* AST encoding.  A statement is a record with a `kind` field.  Optional   *)
(* fields of the TypeScript AST (ButtonStmt.nav, TableRow.actions) are     *)
(* sequences of length 0 (undefined) or 1.  NavTarget.queryArgs is the     *)
(* sequence of the QueryArg nodes (<<>> when undefined).  The programs of  *)
(* the checker's input families carry the fields the checker and the       *)
(* properties read; the nodes the parser builds carry names, labels,       *)
(* expressions and positions as well.                                      *)
(***************************************************************************)
EXTENDS Bags, FiniteSets, Integers, Sequences, TLC

VARIABLES
    source,           \* the argument of the call: the text handed to
                      \* parse(), or the Program handed to checkSemantics()
    lexer,            \* the module-level moo lexer every Parser shares
    history,          \* the earlier calls of parse(), oldest first: their source,
                      \* options and outcome
    errorAt,          \* <<>> or the <<line, col>> of the lexer's or parser's error
    strictMode,       \* options.strictMode
    pc,               \* position inside parse() / SemanticChecker.check()
    ast,              \* <<>> before parseSource returned, <<program>> after;
                      \* <<program>> all along in a call of checkSemantics
    error,            \* "none" or the error raised ("SR-2", "ParseError", "TypeError", ...)
    returned,         \* <<>> or <<program>>: what parse() handed to its caller
    pageNames,        \* SemanticChecker.pageNames
    componentNames,   \* SemanticChecker.componentNames
    pageQueryParams,  \* SemanticChecker.pageQueryParams: page name -> set of query names
    visited,          \* checkSR5ComponentCycles: visited
    inStack,          \* checkSR5ComponentCycles: inStack
    reachable,        \* checkSR4Reachability: reachable
    work              \* the loops of the two graph algorithms when they are
                      \* followed call by call: the names dfs is still to be
                      \* called with, the dfs calls in progress, the queue of
                      \* the search, and the names each loop expanded so far

vars == <<source, lexer, history, errorAt, strictMode, pc, ast, error, returned,
          pageNames, componentNames, pageQueryParams, visited, inStack,
          reachable, work>>

(***************************************************************************)
(* AST constructors                                                        *)
(***************************************************************************)
NavTarget(t, keys) ==
    [target |-> t, queryArgs |-> [i \in DOMAIN keys |-> [key |-> keys[i]]]]
HeaderStmt == [kind |-> "HeaderStmt"]
ButtonStmt(nav) == [kind |-> "ButtonStmt", nav |-> nav]
LinkStmt(nav) == [kind |-> "LinkStmt", nav |-> <<nav>>]
UseStmt(c) == [kind |-> "UseStmt", component |-> c]
SubmitStmt(a) == [kind |-> "SubmitStmt", action |-> a]
ClickStmt(a) == [kind |-> "ClickStmt", action |-> a]
HandlerStmt(targets) ==
    [kind |-> "HandlerStmt",
     outcomes |-> [i \in DOMAIN targets |-> [target |-> targets[i]]]]
ConditionalStmt(body) == [kind |-> "ConditionalStmt", body |-> body]
QueryStmt(n) == [kind |-> "QueryStmt", name |-> n]
StringLiteral(v) == [kind |-> "StringLiteral", value |-> v]
TableRow(cells, actions) == [cells |-> cells, actions |-> actions]
TableStmt(columns, rows) ==
    [kind |-> "TableStmt", columns |-> columns, rows |-> rows]
Decl(n, body) == [name |-> n, body |-> body]
Program(entry, pages, components) ==
    [app |-> [entry |-> entry], pages |-> pages, components |-> components]

Range(s) == {s[i] : i \in DOMAIN s}
SeqsUpTo(S, n) == UNION {[1..k -> S] : k \in 0..n}

(***************************************************************************)
(* Lexer (moo).  A source text is a string; the compiled rules are tried   *)
(* in the order they are written, at the current index, and the first one  *)
(* that matches gives the token.  Each rule is an operator returning the   *)
(* length of its match at position i (1-based), 0 when it does not match.  *)
(***************************************************************************)
KEYWORDS ==
    {"app", "page", "component", "entry", "use", "header", "text", "button",
     "link", "field", "input", "submit", "click", "on", "if", "query",
     "string", "number", "boolean", "true", "false", "password", "email",
     "date", "dropdown", "radio", "table", "columns", "row", "chart",
     "series", "point", "bar", "line", "pie", "area", "scatter"}

Letters ==
    {"a", "b", "c", "d", "e", "f", "g", "h", "i", "j", "k", "l", "m", "n",
     "o", "p", "q", "r", "s", "t", "u", "v", "w", "x", "y", "z",
     "A", "B", "C", "D", "E", "F", "G", "H", "I", "J", "K", "L", "M", "N",
     "O", "P", "Q", "R", "S", "T", "U", "V", "W", "X", "Y", "Z"}
Digits == {"0", "1", "2", "3", "4", "5", "6", "7", "8", "9"}

CharAt(s, i) == SubSeq(s, i, i)

\* length of the run of characters of class C that starts at i
RECURSIVE RunOf(_, _, _)
RunOf(s, i, C) ==
    IF i > Len(s) \/ CharAt(s, i) \notin C THEN 0
    ELSE 1 + RunOf(s, i + 1, C)

\* length of the run of characters other than c that starts at i
RECURSIVE RunUntil(_, _, _)
RunUntil(s, i, c) ==
    IF i > Len(s) \/ CharAt(s, i) = c THEN 0
    ELSE 1 + RunUntil(s, i + 1, c)

\* the literal rules, in the order of moo.compile
Literals ==
    <<<<"ARROW", "->">>, <<"EQ", "==">>, <<"NEQ", "!=">>, <<"LTE", "<=">>,
      <<"GTE", ">=">>, <<"AND", "&&">>, <<"OR", "||">>, <<"LT", "<">>,
      <<"GT", ">">>, <<"BANG", "!">>, <<"LBRACE", "{">>, <<"RBRACE", "}">>,
      <<"LBRACKET", "[">>, <<"RBRACKET", "]">>, <<"COMMA", ",">>,
      <<"DOT", ".">>, <<"COLON", ":">>, <<"QUESTION", "?">>,
      <<"AMPERSAND", "&">>, <<"PLUS", "+">>, <<"ASSIGN", "=">>>>

StartsWith(s, i, lit) ==
    i + Len(lit) - 1 <= Len(s) /\ SubSeq(s, i, i + Len(lit) - 1) = lit

matchWS(s, i) == RunOf(s, i, {" ", "\t"})
matchNL(s, i) ==
    IF StartsWith(s, i, "\n") THEN 1
    ELSE IF StartsWith(s, i, "\r\n") THEN 2 ELSE 0
matchCOMMENT(s, i) ==
    IF StartsWith(s, i, "//") THEN 2 + RunUntil(s, i + 2, "\n") ELSE 0
matchSTRING(s, i) ==
    IF ~StartsWith(s, i, "\"") THEN 0
    ELSE LET n == RunUntil(s, i + 1, "\"")
         IN  IF i + 1 + n <= Len(s) THEN n + 2 ELSE 0
matchNUMBER(s, i) ==
    LET n == RunOf(s, i, Digits)
        m == RunOf(s, i + n + 1, Digits)
    IN  IF n > 0 /\ StartsWith(s, i + n, ".") /\ m > 0 THEN n + 1 + m ELSE n
matchIDENT(s, i) ==
    IF i <= Len(s) /\ CharAt(s, i) \in Letters
    THEN 1 + RunOf(s, i + 1, Letters \cup Digits \cup {"_"})
    ELSE 0

\* [type, size] of the first rule that matches at i; size 0: no rule matches
firstRule(s, i) ==
    LET lits == {k \in DOMAIN Literals : StartsWith(s, i, Literals[k][2])}
        word == SubSeq(s, i, i + matchIDENT(s, i) - 1)
    IN  IF matchWS(s, i) > 0 THEN [type |-> "WS", size |-> matchWS(s, i)]
        ELSE IF matchNL(s, i) > 0 THEN [type |-> "NL", size |-> matchNL(s, i)]
        ELSE IF matchCOMMENT(s, i) > 0
        THEN [type |-> "COMMENT", size |-> matchCOMMENT(s, i)]
        ELSE IF lits # {}
        THEN LET k == CHOOSE k \in lits : \A j \in lits : k <= j
             IN  [type |-> Literals[k][1], size |-> Len(Literals[k][2])]
        ELSE IF matchSTRING(s, i) > 0
        THEN [type |-> "STRING", size |-> matchSTRING(s, i)]
        ELSE IF matchNUMBER(s, i) > 0
        THEN [type |-> "NUMBER", size |-> matchNUMBER(s, i)]
        ELSE IF matchIDENT(s, i) > 0
        THEN [type |-> IF word \in KEYWORDS THEN word ELSE "IDENT",
              size |-> matchIDENT(s, i)]
        ELSE [type |-> "error", size |-> 0]

\* the number of "\n" in s, and the number of characters after the last one
RECURSIVE CountNL(_, _)
CountNL(s, i) ==
    IF i > Len(s) THEN 0
    ELSE (IF CharAt(s, i) = "\n" THEN 1 ELSE 0) + CountNL(s, i + 1)
RECURSIVE AfterLastNL(_, _)
AfterLastNL(s, i) ==
    IF i = 0 \/ CharAt(s, i) = "\n" THEN Len(s) - i
    ELSE AfterLastNL(s, i - 1)

\* lexer.reset(input): index, line and col start again
\* mutant: reset keeps the line and the column the lexer had reached
resetKeepingPosition(lx, input) ==
    [buffer |-> input, index |-> 0, line |-> lx.line, col |-> lx.col]

reset(lx, input) ==
    [buffer |-> input, index |-> 0, line |-> 1, col |-> 1]

\* the state of the module-level lexer when the module has been loaded
CompiledLexer == [buffer |-> "", index |-> 0, line |-> 1, col |-> 1]

\* Lexer._token: the position moves over the matched text; when no rule
\* matches, the default error rule takes the rest of the buffer and throws
moveOver(lx, text, lineBreaks) ==
    [lx EXCEPT !.index = @ + Len(text),
               !.line = @ + lineBreaks,
               !.col = IF lineBreaks # 0 THEN AfterLastNL(text, Len(text)) + 1
                       ELSE @ + Len(text)]

\* mutant: the lexer steps over a character no rule matches and goes on
nextSkippingUnmatched(lx) ==
    LET s == lx.buffer
        i == lx.index + 1
        rule == firstRule(s, i)
        text == SubSeq(s, i, i + rule.size - 1)
        token == [type |-> rule.type,
                  value |-> IF rule.type = "STRING"
                            THEN SubSeq(text, 2, Len(text) - 1) ELSE text,
                  line |-> lx.line, col |-> lx.col]
    IN  IF lx.index = Len(s)
        THEN [done |-> TRUE, err |-> "none", at |-> <<>>, token |-> <<>>,
              lexer |-> lx]
        ELSE IF rule.type = "error"
        THEN [done |-> FALSE, err |-> "none", at |-> <<>>,
              token |-> <<[type |-> "WS", value |-> SubSeq(s, i, i),
                           line |-> lx.line, col |-> lx.col]>>,
              lexer |-> moveOver(lx, SubSeq(s, i, i), 0)]
        ELSE [done |-> FALSE, err |-> "none", at |-> <<>>, token |-> <<token>>,
              lexer |-> moveOver(lx, text, IF rule.type = "NL" THEN 1 ELSE 0)]

\* lexer.next(): [done, err, at, token, lexer]; the error thrown when no
\* rule matches names the line and the column of the text it could not read
next(lx) ==
    LET s == lx.buffer
        i == lx.index + 1
        rule == firstRule(s, i)
        text == SubSeq(s, i, i + rule.size - 1)
        rest == SubSeq(s, i, Len(s))
        token == [type |-> rule.type,
                  value |-> IF rule.type = "STRING"
                            THEN SubSeq(text, 2, Len(text) - 1) ELSE text,
                  line |-> lx.line, col |-> lx.col]
    IN  IF lx.index = Len(s)
        THEN [done |-> TRUE, err |-> "none", at |-> <<>>, token |-> <<>>,
              lexer |-> lx]
        ELSE IF rule.type = "error"
        THEN [done |-> TRUE, err |-> "LexError", at |-> <<lx.line, lx.col>>,
              token |-> <<>>, lexer |-> moveOver(lx, rest, CountNL(rest, 1))]
        ELSE [done |-> FALSE, err |-> "none", at |-> <<>>, token |-> <<token>>,
              lexer |-> moveOver(lx, text, IF rule.type = "NL" THEN 1 ELSE 0)]

SKIP_TYPES == {"WS", "NL", "COMMENT"}

\* one turn of `for (const tok of lexer)` in the Parser constructor: the
\* token is kept unless its type is skipped; st = [done, err, at, tokens,
\* lexer]
pushNext(st) ==
    LET n == next(st.lexer)
    IN  [done |-> n.done, err |-> n.err, at |-> n.at, lexer |-> n.lexer,
         tokens |-> IF n.done \/ n.token[1].type \in SKIP_TYPES THEN st.tokens
                    ELSE st.tokens \o n.token]

\* at most k turns of the loop, stopping when the iterator is done; the
\* turns are taken by halves, which keeps the evaluation shallow
RECURSIVE lexTurns(_, _)
lexTurns(st, k) ==
    IF st.done \/ k = 0 THEN st
    ELSE IF k = 1 THEN pushNext(st)
    ELSE LET half == lexTurns(st, k \div 2)
         IN  IF half.done THEN half ELSE lexTurns(half, k - (k \div 2))

\* the whole loop: every turn but the last consumes at least one character,
\* so Len(buffer) + 1 turns reach the end; [err, at, tokens, lexer]
lexAll(lx, tokens) ==
    LET st == lexTurns([done |-> FALSE, err |-> "none", at |-> <<>>,
                        tokens |-> tokens, lexer |-> lx],
                       Len(lx.buffer) - lx.index + 1)
    IN  [err |-> st.err, at |-> st.at, tokens |-> st.tokens,
         lexer |-> st.lexer]

\* new Parser(input): the shared lexer is reset and read to the end
Parser(input, lx) == lexAll(reset(lx, input), <<>>)

(***************************************************************************)
(* Parser: recursive descent over the token list.  A parser state is       *)
(*   [err, at, pos, vals]:                                                 *)
(* pos is the index of the next token (1-based) and vals the values the    *)
(* function under way holds in its locals, oldest first: the tokens it has *)
(* consumed and the nodes its callees returned.  Every parse function      *)
(* takes the state it starts in and gives the state it ends in, in which   *)
(* its node has taken the place of its locals.  err = "ParseError" is an   *)
(* exception on its way out of every caller, with the position             *)
(* <<line, col>> it carries (<<0, 0>> at the end of input).                *)
(* The steps of a function are nested applications: the innermost is the  *)
(* first step, and the comment before each node lists the locals in the    *)
(* order the steps leave them.                                             *)
(***************************************************************************)
tokenPos(tok) == <<tok.line, tok.col>>
EndOfInput == <<0, 0>>
Start(pos) == [err |-> "none", at |-> <<>>, pos |-> pos, vals |-> <<>>]
Fail(at) == [err |-> "ParseError", at |-> at, pos |-> 0, vals |-> <<>>]

\* a local is set
Push(s, v) == [s EXCEPT !.vals = Append(@, v)]
\* this.advance() whose token is dropped / kept in a local
Skip(s) == [s EXCEPT !.pos = @ + 1]
Shift(s, tok) == Push(Skip(s), tok)
\* the i-th of the last k locals
Arg(s, k, i) == s.vals[Len(s.vals) - k + i]
\* `return node`: the node takes the place of the last k locals
Return(s, k, node) ==
    IF s.err # "none" THEN s
    ELSE [s EXCEPT !.vals = Append(SubSeq(@, 1, Len(@) - k), node)]
\* list.push(node), list = [node], and the same for the value of a token
Collect(s) == Return(s, 2, Append(Arg(s, 2, 1), Arg(s, 2, 2)))
First(s) == Return(s, 1, <<Arg(s, 1, 1)>>)
CollectValue(s) == Return(s, 2, Append(Arg(s, 2, 1), Arg(s, 2, 2).value))
FirstValue(s) == Return(s, 1, <<Arg(s, 1, 1).value>>)

isAtEnd(tokens, pos) == pos > Len(tokens)

\* `tok.type === typeOrValue || tok.value === typeOrValue`
Matches(tok, typeOrValue) == tok.type = typeOrValue \/ tok.value = typeOrValue

\* Parser.check
checkNext(tokens, pos, typeOrValue) ==
    ~isAtEnd(tokens, pos) /\ Matches(tokens[pos], typeOrValue)

expect(tokens, s, typeOrValue) ==
    IF s.err # "none" THEN s
    ELSE IF isAtEnd(tokens, s.pos) THEN Fail(EndOfInput)
    ELSE IF ~Matches(tokens[s.pos], typeOrValue)
    THEN Fail(tokenPos(tokens[s.pos]))
    ELSE Shift(s, tokens[s.pos])

\* the keyword token types expectIdent lists next to IDENT
IdentLike ==
    {"IDENT",
     "app", "page", "component", "entry", "use", "header", "text",
     "button", "link", "field", "input", "submit", "click", "on", "if",
     "query", "string", "number", "boolean",
     "true", "false",
     "table", "columns", "row",
     "chart", "series", "point",
     "bar", "line", "pie", "area", "scatter"}

expectIdent(tokens, s) ==
    IF s.err # "none" THEN s
    ELSE IF isAtEnd(tokens, s.pos) THEN Fail(EndOfInput)
    ELSE IF tokens[s.pos].type \notin IdentLike
    THEN Fail(tokenPos(tokens[s.pos]))
    ELSE Shift(s, tokens[s.pos])

expectString(tokens, s) ==
    IF s.err # "none" THEN s
    ELSE IF isAtEnd(tokens, s.pos) THEN Fail(EndOfInput)
    ELSE IF tokens[s.pos].type # "STRING" THEN Fail(tokenPos(tokens[s.pos]))
    ELSE Shift(s, tokens[s.pos])

\* parseFloat of a NUMBER token ([0-9]+ with an optional fraction): the
\* IEEE 754 double nearest to the decimal the text denotes, ties to the
\* even mantissa.  The double is given as mantissa * 2^exponent with an odd
\* mantissa written in decimal digits ("0" with exponent 0 for zero), so
\* that two texts give equal values exactly when they give the same double.
\* A decimal is [int, frac]: the digits before the point without leading
\* zeros and the digits after it without trailing zeros.
DigitValue ==
    "0" :> 0 @@ "1" :> 1 @@ "2" :> 2 @@ "3" :> 3 @@ "4" :> 4 @@
    "5" :> 5 @@ "6" :> 6 @@ "7" :> 7 @@ "8" :> 8 @@ "9" :> 9
DigitChars == <<"0", "1", "2", "3", "4", "5", "6", "7", "8", "9">>
DigitsOf(text) == [i \in 1..Len(text) |-> DigitValue[CharAt(text, i)]]
RECURSIVE DigitString(_)
DigitString(d) ==
    IF d = <<>> THEN "" ELSE DigitChars[Head(d) + 1] \o DigitString(Tail(d))
LeadingZeros(d) ==
    IF \A i \in DOMAIN d : d[i] = 0 THEN Len(d)
    ELSE (CHOOSE i \in DOMAIN d : d[i] # 0 /\ \A j \in 1..(i - 1) : d[j] = 0) - 1
TrailingZeros(d) ==
    IF \A i \in DOMAIN d : d[i] = 0 THEN Len(d)
    ELSE Len(d) - (CHOOSE i \in DOMAIN d :
                      d[i] # 0 /\ \A j \in (i + 1)..Len(d) : d[j] = 0)
Decimal(int, frac) ==
    [int |-> SubSeq(int, LeadingZeros(int) + 1, Len(int)),
     frac |-> SubSeq(frac, 1, Len(frac) - TrailingZeros(frac))]
\* a < b for digits without leading zeros
Less(a, b) ==
    \/ Len(a) < Len(b)
    \/ /\ Len(a) = Len(b)
       /\ \E i \in DOMAIN a : a[i] < b[i] /\ \A j \in 1..(i - 1) : a[j] = b[j]
\* twice a digit string: a digit takes a carry when the next one is 5 or more
DoubleDigits(d) ==
    [i \in 1..Len(d) |->
        ((2 * d[i]) % 10) + (IF i < Len(d) /\ d[i + 1] >= 5 THEN 1 ELSE 0)]
Double(v) ==
    Decimal((IF v.int \o v.frac # <<>> /\ (v.int \o v.frac)[1] >= 5
             THEN <<1>> ELSE <<>>)
            \o SubSeq(DoubleDigits(v.int \o v.frac), 1, Len(v.int)),
            SubSeq(DoubleDigits(v.int \o v.frac), Len(v.int) + 1,
                   Len(v.int) + Len(v.frac)))
\* half a digit string, one digit longer: a digit takes ten when the one
\* before it is odd
HalveDigits(d) ==
    [i \in 1..(Len(d) + 1) |->
        ((IF i <= Len(d) THEN d[i] ELSE 0)
         + (IF i > 1 /\ d[i - 1] % 2 = 1 THEN 10 ELSE 0)) \div 2]
Halve(v) ==
    Decimal(SubSeq(HalveDigits(v.int \o v.frac), 1, Len(v.int)),
            SubSeq(HalveDigits(v.int \o v.frac), Len(v.int) + 1,
                   Len(v.int) + Len(v.frac) + 1))
TrailingNines(d) ==
    IF \A i \in DOMAIN d : d[i] = 9 THEN Len(d)
    ELSE Len(d) - (CHOOSE i \in DOMAIN d :
                      d[i] # 9 /\ \A j \in (i + 1)..Len(d) : d[j] = 9)
Increment(d) ==
    IF TrailingNines(d) = Len(d) THEN <<1>> \o [i \in 1..Len(d) |-> 0]
    ELSE [i \in 1..Len(d) |->
             IF i < Len(d) - TrailingNines(d) THEN d[i]
             ELSE IF i = Len(d) - TrailingNines(d) THEN d[i] + 1
             ELSE 0]
IsOdd(d) == d # <<>> /\ d[Len(d)] % 2 = 1
TwoTo52 == <<4, 5, 0, 3, 5, 9, 9, 6, 2, 7, 3, 7, 0, 4, 9, 6>>
TwoTo53 == <<9, 0, 0, 7, 1, 9, 9, 2, 5, 4, 7, 4, 0, 9, 9, 2>>
MinExponent == 0 - 1074
MaxExponent == 971
\* s.int, s.frac times 2^s.exponent is the decimal of the text: it is
\* halved while its whole part has more than 53 bits, and doubled while its
\* whole part has less than 53 bits and something is left after the point.
\* The steps are taken by halves of their number, which keeps the
\* evaluation shallow.
ScaleDone(s) ==
    /\ Less(s.int, TwoTo53)
    /\ ~(s.frac # <<>> /\ Less(s.int, TwoTo52) /\ s.exponent > MinExponent)
WithExponent(v, e) == [int |-> v.int, frac |-> v.frac, exponent |-> e]
ScaleStep(s) ==
    IF ~Less(s.int, TwoTo53) THEN WithExponent(Halve(s), s.exponent + 1)
    ELSE WithExponent(Double(s), s.exponent - 1)
RECURSIVE Scaled(_, _)
Scaled(s, n) ==
    IF ScaleDone(s) \/ n = 0 THEN s
    ELSE IF n = 1 THEN ScaleStep(s)
    ELSE Scaled(Scaled(s, n \div 2), n - (n \div 2))
\* the whole part, one more when what is after the point is more than a
\* half, or is a half and the whole part is odd
Rounded(s) ==
    [int |-> IF s.frac # <<>>
                /\ \/ s.frac[1] > 5
                   \/ s.frac[1] = 5 /\ (Len(s.frac) > 1 \/ IsOdd(s.int))
             THEN Increment(s.int) ELSE s.int,
     frac |-> <<>>,
     exponent |-> s.exponent]
\* the factors two of the mantissa go to the exponent
RECURSIVE Stripped(_, _)
Stripped(r, n) ==
    IF r.int = <<>> \/ IsOdd(r.int) \/ n = 0 THEN r
    ELSE IF n = 1 THEN WithExponent(Halve(r), r.exponent + 1)
    ELSE Stripped(Stripped(r, n \div 2), n - (n \div 2))
OddMantissa(r) ==
    IF r.int = <<>> THEN [mantissa |-> "0", exponent |-> 0]
    ELSE IF r.exponent > MaxExponent
            \/ (r.exponent = MaxExponent /\ ~Less(r.int, TwoTo53))
    THEN [mantissa |-> "Infinity", exponent |-> 0]
    ELSE [mantissa |-> DigitString(Stripped(r, 64).int),
          exponent |-> Stripped(r, 64).exponent]
\* at most four halvings for a digit of the text, at most 1074 + 53 doublings
ScaleSteps(text) == 4 * Len(text) + 1200
DecimalOf(text) ==
    Decimal(DigitsOf(SubSeq(text, 1, RunOf(text, 1, Digits))),
            DigitsOf(SubSeq(text, RunOf(text, 1, Digits) + 2, Len(text))))
parseFloat(text) ==
    OddMantissa(Rounded(Scaled(WithExponent(DecimalOf(text), 0),
                               ScaleSteps(text))))

(***************************************************************************)
(* Expressions                                                             *)
(***************************************************************************)
LiteralNode(tok) ==
    IF tok.type = "STRING"
    THEN [kind |-> "StringLiteral", value |-> tok.value, pos |-> tokenPos(tok)]
    ELSE IF tok.type = "NUMBER"
    THEN [kind |-> "NumberLiteral", value |-> parseFloat(tok.value),
          pos |-> tokenPos(tok)]
    ELSE [kind |-> "BooleanLiteral", value |-> (tok.type = "true"),
          pos |-> tokenPos(tok)]

IdentifierExpr(tok) ==
    [kind |-> "IdentifierExpr", name |-> tok.value, pos |-> tokenPos(tok)]

\* locals: the identifier token, the member token
MemberExpr(s) ==
    Return(s, 2, [kind |-> "MemberExpr",
                  object |-> IdentifierExpr(Arg(s, 2, 1)),
                  member |-> Arg(s, 2, 2).value,
                  pos |-> tokenPos(Arg(s, 2, 1))])

parsePrimary(tokens, s) ==
    IF s.err # "none" THEN s
    ELSE IF isAtEnd(tokens, s.pos) THEN Fail(EndOfInput)
    ELSE IF tokens[s.pos].type \in {"true", "false", "STRING", "NUMBER"}
    THEN Push(Skip(s), LiteralNode(tokens[s.pos]))
    ELSE IF tokens[s.pos].type \in {"IDENT", "query"}
    THEN IF checkNext(tokens, s.pos + 1, "DOT")
         THEN MemberExpr(expectIdent(tokens, Skip(Shift(s, tokens[s.pos]))))
         ELSE Push(Skip(s), IdentifierExpr(tokens[s.pos]))
    ELSE Fail(tokenPos(tokens[s.pos]))

\* locals: the "!" token, the operand
UnaryExpr(s) ==
    Return(s, 2, [kind |-> "UnaryExpr", operator |-> "!",
                  operand |-> Arg(s, 2, 2), pos |-> tokenPos(Arg(s, 2, 1))])

parseUnary(tokens, s) ==
    IF s.err # "none" THEN s
    ELSE IF checkNext(tokens, s.pos, "BANG")
    THEN UnaryExpr(parsePrimary(tokens, Shift(s, tokens[s.pos])))
    ELSE parsePrimary(tokens, s)

\* locals: left, the operator token, right
BinaryExpr(operator, s) ==
    Return(s, 3, [kind |-> "BinaryExpr", operator |-> operator,
                  left |-> Arg(s, 3, 1), right |-> Arg(s, 3, 3),
                  pos |-> tokenPos(Arg(s, 3, 2))])

\* mutant: the right operand of `+` takes every `+` that follows
RECURSIVE additiveLoopRight(_, _)
additiveLoopRight(tokens, s) ==
    IF s.err # "none" \/ ~checkNext(tokens, s.pos, "PLUS") THEN s
    ELSE BinaryExpr("+", additiveLoopRight(tokens,
                             parseUnary(tokens, Shift(s, tokens[s.pos]))))

\* the `while (this.check("PLUS"))` loop; the last local is left
RECURSIVE additiveLoop(_, _)
additiveLoop(tokens, s) ==
    IF s.err # "none" \/ ~checkNext(tokens, s.pos, "PLUS") THEN s
    ELSE additiveLoop(tokens,
             BinaryExpr("+", parseUnary(tokens, Shift(s, tokens[s.pos]))))

parseAdditive(tokens, s) == additiveLoop(tokens, parseUnary(tokens, s))

COMPARISON_OPS ==
    "EQ" :> "==" @@ "NEQ" :> "!=" @@ "LT" :> "<" @@ "GT" :> ">" @@
    "LTE" :> "<=" @@ "GTE" :> ">="

\* mutant: every comparison operator that follows is consumed
RECURSIVE comparisonRestChaining(_, _)
comparisonRestChaining(tokens, s) ==
    IF s.err # "none" \/ isAtEnd(tokens, s.pos) THEN s
    ELSE IF tokens[s.pos].type \notin DOMAIN COMPARISON_OPS THEN s
    ELSE comparisonRestChaining(tokens,
             BinaryExpr(COMPARISON_OPS[tokens[s.pos].type],
                        parseAdditive(tokens, Shift(s, tokens[s.pos]))))

\* at most one comparison operator is consumed; the last local is left
comparisonRest(tokens, s) ==
    IF s.err # "none" \/ isAtEnd(tokens, s.pos) THEN s
    ELSE IF tokens[s.pos].type \notin DOMAIN COMPARISON_OPS THEN s
    ELSE BinaryExpr(COMPARISON_OPS[tokens[s.pos].type],
                    parseAdditive(tokens, Shift(s, tokens[s.pos])))

parseComparison(tokens, s) == comparisonRest(tokens, parseAdditive(tokens, s))

RECURSIVE andLoop(_, _)
andLoop(tokens, s) ==
    IF s.err # "none" \/ ~checkNext(tokens, s.pos, "AND") THEN s
    ELSE andLoop(tokens,
             BinaryExpr("&&", parseComparison(tokens, Shift(s, tokens[s.pos]))))

parseAnd(tokens, s) == andLoop(tokens, parseComparison(tokens, s))

RECURSIVE orLoop(_, _)
orLoop(tokens, s) ==
    IF s.err # "none" \/ ~checkNext(tokens, s.pos, "OR") THEN s
    ELSE orLoop(tokens,
             BinaryExpr("||", parseAnd(tokens, Shift(s, tokens[s.pos]))))

parseOr(tokens, s) == orLoop(tokens, parseAnd(tokens, s))

parseExpression(tokens, s) == parseOr(tokens, s)

parseLiteral(tokens, s) ==
    IF s.err # "none" THEN s
    ELSE IF isAtEnd(tokens, s.pos) THEN Fail(EndOfInput)
    ELSE IF tokens[s.pos].type \in {"STRING", "NUMBER", "true", "false"}
    THEN Push(Skip(s), LiteralNode(tokens[s.pos]))
    ELSE Fail(tokenPos(tokens[s.pos]))

(***************************************************************************)
(* Navigation targets and statements                                       *)
(***************************************************************************)
\* locals: keyTok, the "=" token, value
QueryArg(s) ==
    Return(s, 3, [key |-> Arg(s, 3, 1).value, value |-> Arg(s, 3, 3),
                  pos |-> tokenPos(Arg(s, 3, 1))])

parseQueryArg(tokens, s) ==
    QueryArg(parseExpression(tokens, expect(tokens, expectIdent(tokens, s),
        "ASSIGN")))

\* `while (this.match("AMPERSAND"))`; the last local is queryArgs
RECURSIVE queryArgsLoop(_, _)
queryArgsLoop(tokens, s) ==
    IF s.err # "none" \/ ~checkNext(tokens, s.pos, "AMPERSAND") THEN s
    ELSE queryArgsLoop(tokens, Collect(parseQueryArg(tokens, Skip(s))))

\* `if (this.match("QUESTION"))`: queryArgs stays undefined (<<>>) when no
\* "?" follows the target
parseQueryArgs(tokens, s) ==
    IF s.err # "none" THEN s
    ELSE IF ~checkNext(tokens, s.pos, "QUESTION") THEN Push(s, <<>>)
    ELSE queryArgsLoop(tokens, First(parseQueryArg(tokens, Skip(s))))

\* locals: arrowTok, targetTok, queryArgs
NavTargetNode(s) ==
    Return(s, 3, [target |-> Arg(s, 3, 2).value, queryArgs |-> Arg(s, 3, 3),
                  pos |-> tokenPos(Arg(s, 3, 1))])

parseNavTarget(tokens, s) ==
    NavTargetNode(parseQueryArgs(tokens, expectIdent(tokens, expect(tokens, s,
        "ARROW"))))

\* locals: kw, str
LabelStmt(kind, s) ==
    Return(s, 2, [kind |-> kind, text |-> Arg(s, 2, 2).value,
                  pos |-> tokenPos(Arg(s, 2, 1))])

parseHeaderStmt(tokens, s) ==
    LabelStmt("HeaderStmt", expectString(tokens, expect(tokens, s, "header")))

parseTextStmt(tokens, s) ==
    LabelStmt("TextStmt", expectString(tokens, expect(tokens, s, "text")))

\* `if (this.check("ARROW")) nav = this.parseNavTarget()`: nav stays
\* undefined (<<>>) when no "->" follows the label
parseOptionalNav(tokens, s) ==
    IF s.err # "none" THEN s
    ELSE IF checkNext(tokens, s.pos, "ARROW")
    THEN First(parseNavTarget(tokens, s))
    ELSE Push(s, <<>>)

\* locals: kw, str, nav (<<>> or <<NavTarget>>)
NavStmt(kind, s) ==
    Return(s, 3, [kind |-> kind, label |-> Arg(s, 3, 2).value,
                  nav |-> Arg(s, 3, 3), pos |-> tokenPos(Arg(s, 3, 1))])

parseButtonStmt(tokens, s) ==
    NavStmt("ButtonStmt", parseOptionalNav(tokens, expectString(tokens,
        expect(tokens, s, "button"))))

parseLinkStmt(tokens, s) ==
    NavStmt("LinkStmt", First(parseNavTarget(tokens, expectString(tokens,
        expect(tokens, s, "link")))))

\* locals: kw, id
NameStmt(kind, s) ==
    Return(s, 2, [kind |-> kind, name |-> Arg(s, 2, 2).value,
                  pos |-> tokenPos(Arg(s, 2, 1))])

parseFieldStmt(tokens, s) ==
    NameStmt("FieldStmt", expectIdent(tokens, expect(tokens, s, "field")))

parseInputStmt(tokens, s) ==
    NameStmt("InputStmt", expectIdent(tokens, expect(tokens, s, "input")))

\* locals: kw, id
UseStmtNode(s) ==
    Return(s, 2, [kind |-> "UseStmt", component |-> Arg(s, 2, 2).value,
                  pos |-> tokenPos(Arg(s, 2, 1))])

parseUseStmt(tokens, s) ==
    UseStmtNode(expectIdent(tokens, expect(tokens, s, "use")))

\* locals: kw, str, the "->" token, id
ActionStmt(kind, s) ==
    Return(s, 4, [kind |-> kind, label |-> Arg(s, 4, 2).value,
                  action |-> Arg(s, 4, 4).value,
                  pos |-> tokenPos(Arg(s, 4, 1))])

parseSubmitStmt(tokens, s) ==
    ActionStmt("SubmitStmt", expectIdent(tokens, expect(tokens,
        expectString(tokens, expect(tokens, s, "submit")), "ARROW")))

parseClickStmt(tokens, s) ==
    ActionStmt("ClickStmt", expectIdent(tokens, expect(tokens,
        expectString(tokens, expect(tokens, s, "click")), "ARROW")))

\* locals: outcomeTok, the "->" token, targetTok
OutcomeClause(s) ==
    Return(s, 3, [outcome |-> Arg(s, 3, 1).value,
                  target |-> Arg(s, 3, 3).value,
                  pos |-> tokenPos(Arg(s, 3, 1))])

parseOutcomeClause(tokens, s) ==
    OutcomeClause(expectIdent(tokens, expect(tokens, expectIdent(tokens, s),
        "ARROW")))

\* `while (!this.check("RBRACE") && !this.isAtEnd())` over outcome clauses;
\* the last local is outcomes
RECURSIVE outcomesLoop(_, _)
outcomesLoop(tokens, s) ==
    IF s.err # "none"
       \/ checkNext(tokens, s.pos, "RBRACE")
       \/ isAtEnd(tokens, s.pos)
    THEN s
    ELSE outcomesLoop(tokens, Collect(parseOutcomeClause(tokens, s)))

\* locals: kw, actionTok, the "{" token, outcomes, the "}" token
HandlerStmtNode(s) ==
    Return(s, 5, [kind |-> "HandlerStmt", action |-> Arg(s, 5, 2).value,
                  outcomes |-> Arg(s, 5, 4), pos |-> tokenPos(Arg(s, 5, 1))])

parseHandlerStmt(tokens, s) ==
    HandlerStmtNode(expect(tokens, outcomesLoop(tokens, Push(expect(tokens,
        expectIdent(tokens, expect(tokens, s, "on")), "LBRACE"), <<>>)),
        "RBRACE"))

\* the optional `: string | number | boolean` after the name of a query;
\* valueType stays undefined (<<>>) without it
parseValueType(tokens, s) ==
    IF s.err # "none" THEN s
    ELSE IF ~checkNext(tokens, s.pos, "COLON") THEN Push(s, <<>>)
    ELSE IF isAtEnd(tokens, s.pos + 1) THEN Fail(EndOfInput)
    ELSE IF tokens[s.pos + 1].type \in {"string", "number", "boolean"}
    THEN Push(Skip(Skip(s)), <<tokens[s.pos + 1].value>>)
    ELSE Fail(tokenPos(tokens[s.pos + 1]))

\* the optional `= <literal>`; defaultValue stays undefined (<<>>) without it
parseDefaultValue(tokens, s) ==
    IF s.err # "none" THEN s
    ELSE IF ~checkNext(tokens, s.pos, "ASSIGN") THEN Push(s, <<>>)
    ELSE First(parseLiteral(tokens, Skip(s)))

\* locals: kw, nameTok, valueType, defaultValue
QueryStmtNode(s) ==
    Return(s, 4, [kind |-> "QueryStmt", name |-> Arg(s, 4, 2).value,
                  valueType |-> Arg(s, 4, 3), defaultValue |-> Arg(s, 4, 4),
                  pos |-> tokenPos(Arg(s, 4, 1))])

parseQueryStmt(tokens, s) ==
    QueryStmtNode(parseDefaultValue(tokens, parseValueType(tokens,
        expectIdent(tokens, expect(tokens, s, "query")))))

\* a bracketed list: `if (!check("RBRACKET")) { item; while (match("COMMA"))
\* { if (check("RBRACKET")) break; item } }`; the last local is the list
RECURSIVE columnsLoop(_, _)
columnsLoop(tokens, s) ==
    IF s.err # "none" \/ ~checkNext(tokens, s.pos, "COMMA") THEN s
    ELSE IF checkNext(tokens, s.pos + 1, "RBRACKET") THEN Skip(s)
    ELSE columnsLoop(tokens, CollectValue(expectString(tokens, Skip(s))))

parseColumns(tokens, s) ==
    IF s.err # "none" THEN s
    ELSE IF checkNext(tokens, s.pos, "RBRACKET") THEN Push(s, <<>>)
    ELSE columnsLoop(tokens, FirstValue(expectString(tokens, s)))

RECURSIVE cellsLoop(_, _)
cellsLoop(tokens, s) ==
    IF s.err # "none" \/ ~checkNext(tokens, s.pos, "COMMA") THEN s
    ELSE IF checkNext(tokens, s.pos + 1, "RBRACKET") THEN Skip(s)
    ELSE cellsLoop(tokens, Collect(parseExpression(tokens, Skip(s))))

parseCells(tokens, s) ==
    IF s.err # "none" THEN s
    ELSE IF checkNext(tokens, s.pos, "RBRACKET") THEN Push(s, <<>>)
    ELSE cellsLoop(tokens, First(parseExpression(tokens, s)))

\* locals: kw, x, the "," token, y
ChartPoint(s) ==
    Return(s, 4, [x |-> Arg(s, 4, 2), y |-> Arg(s, 4, 4),
                  pos |-> tokenPos(Arg(s, 4, 1))])

parseChartPoint(tokens, s) ==
    ChartPoint(parseExpression(tokens, expect(tokens, parseExpression(tokens,
        expect(tokens, s, "point")), "COMMA")))

\* `while (this.check("point") && !this.isAtEnd())`
RECURSIVE pointsLoop(_, _)
pointsLoop(tokens, s) ==
    IF s.err # "none" \/ ~checkNext(tokens, s.pos, "point") THEN s
    ELSE pointsLoop(tokens, Collect(parseChartPoint(tokens, s)))

\* locals: kw, labelTok, the "{" token, points, the "}" token
ChartSeries(s) ==
    Return(s, 5, [label |-> Arg(s, 5, 2).value, points |-> Arg(s, 5, 4),
                  pos |-> tokenPos(Arg(s, 5, 1))])

parseSeriesDecl(tokens, s) ==
    ChartSeries(expect(tokens, pointsLoop(tokens, Push(expect(tokens,
        expectString(tokens, expect(tokens, s, "series")), "LBRACE"), <<>>)),
        "RBRACE"))

\* `while (this.check("series") && !this.isAtEnd())`
RECURSIVE seriesLoop(_, _)
seriesLoop(tokens, s) ==
    IF s.err # "none" \/ ~checkNext(tokens, s.pos, "series") THEN s
    ELSE seriesLoop(tokens, Collect(parseSeriesDecl(tokens, s)))

CHART_TYPES == {"bar", "line", "pie", "area", "scatter"}

\* the chart type keyword: the next token, accepted by its type only
parseChartType(tokens, s) ==
    IF s.err # "none" THEN s
    ELSE IF isAtEnd(tokens, s.pos) THEN Fail(EndOfInput)
    ELSE IF tokens[s.pos].type \notin CHART_TYPES
    THEN Fail(tokenPos(tokens[s.pos]))
    ELSE Shift(s, tokens[s.pos])

\* locals: kw, nameTok, typeTok, the "{" token, seriesList, the "}" token
ChartStmt(s) ==
    Return(s, 6, [kind |-> "ChartStmt", name |-> Arg(s, 6, 2).value,
                  chartType |-> Arg(s, 6, 3).value, series |-> Arg(s, 6, 5),
                  pos |-> tokenPos(Arg(s, 6, 1))])

parseChartStmt(tokens, s) ==
    ChartStmt(expect(tokens, seriesLoop(tokens, Push(expect(tokens,
        parseChartType(tokens, expectIdent(tokens, expect(tokens, s, "chart"))),
        "LBRACE"), <<>>)), "RBRACE"))

RECURSIVE parseBlock(_, _)
RECURSIVE parseStatement(_, _)
RECURSIVE statementsLoop(_, _)
RECURSIVE parseConditionalStmt(_, _)
RECURSIVE parseRowActions(_, _)
RECURSIVE parseTableRow(_, _)
RECURSIVE rowsLoop(_, _)
RECURSIVE parseTableStmt(_, _)

\* mutant: the block after the cells is read and its statements dropped
parseRowActionsDropped(tokens, s) ==
    IF s.err # "none" THEN s
    ELSE IF checkNext(tokens, s.pos, "LBRACE")
    THEN Return(parseBlock(tokens, s), 1, <<<<>>>>)
    ELSE Push(s, <<>>)

\* `if (this.check("LBRACE")) actions = this.parseBlock()`: actions stays
\* undefined (<<>>) when no "{" follows the cells
parseRowActions(tokens, s) ==
    IF s.err # "none" THEN s
    ELSE IF checkNext(tokens, s.pos, "LBRACE")
    THEN First(parseBlock(tokens, s))
    ELSE Push(s, <<>>)

\* locals: kw, the "[" token, cells, the "]" token, actions
TableRowNode(s) ==
    Return(s, 5, [cells |-> Arg(s, 5, 3), actions |-> Arg(s, 5, 5),
                  pos |-> tokenPos(Arg(s, 5, 1))])

parseTableRow(tokens, s) ==
    TableRowNode(parseRowActions(tokens, expect(tokens, parseCells(tokens,
        expect(tokens, expect(tokens, s, "row"), "LBRACKET")), "RBRACKET")))

\* `while (this.check("row") && !this.isAtEnd())`
rowsLoop(tokens, s) ==
    IF s.err # "none" \/ ~checkNext(tokens, s.pos, "row") THEN s
    ELSE rowsLoop(tokens, Collect(parseTableRow(tokens, s)))

\* locals: kw, nameTok, "{", the columns token, "[", columns, "]", rows, "}"
TableStmtNode(s) ==
    Return(s, 9, [kind |-> "TableStmt", name |-> Arg(s, 9, 2).value,
                  columns |-> Arg(s, 9, 6), rows |-> Arg(s, 9, 8),
                  pos |-> tokenPos(Arg(s, 9, 1))])

parseTableStmt(tokens, s) ==
    TableStmtNode(expect(tokens, rowsLoop(tokens, Push(expect(tokens,
        parseColumns(tokens, expect(tokens, expect(tokens, expect(tokens,
        expectIdent(tokens, expect(tokens, s, "table")), "LBRACE"), "columns"),
        "LBRACKET")), "RBRACKET"), <<>>)), "RBRACE"))

\* locals: kw, condition, body
ConditionalStmtNode(s) ==
    Return(s, 3, [kind |-> "ConditionalStmt", condition |-> Arg(s, 3, 2),
                  body |-> Arg(s, 3, 3), pos |-> tokenPos(Arg(s, 3, 1))])

parseConditionalStmt(tokens, s) ==
    ConditionalStmtNode(parseBlock(tokens, parseExpression(tokens,
        expect(tokens, s, "if"))))

\* the switch on tok.type
parseStatement(tokens, s) ==
    IF s.err # "none" THEN s
    ELSE IF isAtEnd(tokens, s.pos) THEN Fail(EndOfInput)
    ELSE LET type == tokens[s.pos].type
         IN  IF type = "header" THEN parseHeaderStmt(tokens, s)
             ELSE IF type = "text" THEN parseTextStmt(tokens, s)
             ELSE IF type = "button" THEN parseButtonStmt(tokens, s)
             ELSE IF type = "link" THEN parseLinkStmt(tokens, s)
             ELSE IF type = "field" THEN parseFieldStmt(tokens, s)
             ELSE IF type = "input" THEN parseInputStmt(tokens, s)
             ELSE IF type = "use" THEN parseUseStmt(tokens, s)
             ELSE IF type = "submit" THEN parseSubmitStmt(tokens, s)
             ELSE IF type = "click" THEN parseClickStmt(tokens, s)
             ELSE IF type = "on" THEN parseHandlerStmt(tokens, s)
             ELSE IF type = "if" THEN parseConditionalStmt(tokens, s)
             ELSE IF type = "query" THEN parseQueryStmt(tokens, s)
             ELSE IF type = "table" THEN parseTableStmt(tokens, s)
             ELSE IF type = "chart" THEN parseChartStmt(tokens, s)
             ELSE Fail(tokenPos(tokens[s.pos]))

\* `while (!this.check("RBRACE") && !this.isAtEnd())`
statementsLoop(tokens, s) ==
    IF s.err # "none"
       \/ checkNext(tokens, s.pos, "RBRACE")
       \/ isAtEnd(tokens, s.pos)
    THEN s
    ELSE statementsLoop(tokens, Collect(parseStatement(tokens, s)))

\* locals: the "{" token, stmts, the "}" token
Block(s) == Return(s, 3, Arg(s, 3, 2))

parseBlock(tokens, s) ==
    Block(expect(tokens, statementsLoop(tokens, Push(expect(tokens, s,
        "LBRACE"), <<>>)), "RBRACE"))

(***************************************************************************)
(* Declarations and the program                                            *)
(***************************************************************************)
\* locals: appTok, nameTok, "{", the entry token, entryTok, "}"
AppDecl(s) ==
    Return(s, 6, [kind |-> "AppDecl", name |-> Arg(s, 6, 2).value,
                  entry |-> Arg(s, 6, 5).value,
                  pos |-> tokenPos(Arg(s, 6, 1))])

parseAppDecl(tokens, s) ==
    AppDecl(expect(tokens, expectIdent(tokens, expect(tokens, expect(tokens,
        expectIdent(tokens, expect(tokens, s, "app")), "LBRACE"), "entry")),
        "RBRACE"))

\* locals: the keyword token, nameTok, body
DeclNode(kind, s) ==
    Return(s, 3, [kind |-> kind, name |-> Arg(s, 3, 2).value,
                  body |-> Arg(s, 3, 3), pos |-> tokenPos(Arg(s, 3, 1))])

parsePageDecl(tokens, s) ==
    DeclNode("PageDecl", parseBlock(tokens, expectIdent(tokens, expect(tokens,
        s, "page"))))

parseComponentDecl(tokens, s) ==
    DeclNode("ComponentDecl", parseBlock(tokens, expectIdent(tokens,
        expect(tokens, s, "component"))))

\* pages.push(decl) and components.push(decl); locals: the program so far,
\* the declaration
PushPage(s) ==
    Return(s, 2, [Arg(s, 2, 1) EXCEPT !.pages = Append(@, Arg(s, 2, 2))])
PushComponent(s) ==
    Return(s, 2, [Arg(s, 2, 1) EXCEPT !.components = Append(@, Arg(s, 2, 2))])

\* the `while (!this.isAtEnd())` loop of parseProgram; the last local is
\* the program so far
RECURSIVE declsLoop(_, _)
declsLoop(tokens, s) ==
    IF s.err # "none" \/ isAtEnd(tokens, s.pos) THEN s
    ELSE IF tokens[s.pos].type = "page"
    THEN declsLoop(tokens, PushPage(parsePageDecl(tokens, s)))
    ELSE IF tokens[s.pos].type = "component"
    THEN declsLoop(tokens, PushComponent(parseComponentDecl(tokens, s)))
    ELSE Fail(tokenPos(tokens[s.pos]))

\* locals: app
EmptyProgram(s) ==
    Return(s, 1, [kind |-> "Program", app |-> Arg(s, 1, 1),
                  pages |-> <<>>, components |-> <<>>])

parseProgram(tokens) ==
    declsLoop(tokens, EmptyProgram(parseAppDecl(tokens, Start(1))))

\* what parse(source) of the parser module leaves: the outcome s of
\* parseProgram and the lexer lx; [err, at, program, lexer]
outcomeOf(s, lx) ==
    [err |-> s.err, at |-> s.at,
     program |-> IF s.err = "none" THEN s.vals ELSE <<>>, lexer |-> lx]

\* `.parseProgram()` on a constructed Parser; an error of the lexer has
\* left the constructor and there is no Parser
parseLexed(lexed) ==
    IF lexed.err # "none"
    THEN [err |-> lexed.err, at |-> lexed.at, program |-> <<>>,
          lexer |-> lexed.lexer]
    ELSE outcomeOf(parseProgram(lexed.tokens), lexed.lexer)

\* parse(source) of the parser module: `new Parser(source).parseProgram()`
parseSource(text, lx) == parseLexed(Parser(text, lx))

(***************************************************************************)
(* SemanticChecker constructor                                             *)
(***************************************************************************)
NamesOf(decls) == {decls[i].name : i \in DOMAIN decls}

EmptyQueryParams(program) == [n \in NamesOf(program.pages) |-> {}]

(***************************************************************************)
(* SR-1 / SR-2                                                             *)
(***************************************************************************)
\* String.prototype.trim: s without the white space and the line
\* terminators of ECMAScript at its two ends.  Of these, a string of the
\* model can hold space, TAB, LF, CR, FF, VT (U+000B), U+00A0, U+1680 and
\* U+FEFF, the last four written as the characters themselves; U+2000 to
\* U+200A, U+2028, U+2029, U+202F, U+205F and U+3000 are in no string here.
TrimSpace ==
    {" ", "\t", "\n", "\r", "\f", "", " ", " ", "﻿"}
RECURSIVE trim(_)
trim(s) ==
    IF s = "" THEN s
    ELSE IF CharAt(s, 1) \in TrimSpace THEN trim(SubSeq(s, 2, Len(s)))
    ELSE IF CharAt(s, Len(s)) \in TrimSpace THEN trim(SubSeq(s, 1, Len(s) - 1))
    ELSE s

\* mutant: any declared name, page or component, is accepted as entry
checkSR1andSR2AnyDeclaration(program, pNames, cNames) ==
    IF program.app.entry = "" \/ trim(program.app.entry) = "" THEN "SR-1"
    ELSE IF program.app.entry \notin pNames \cup cNames THEN "SR-2"
    ELSE "none"

\* `!app.entry || app.entry.trim() === ""`, then `!this.pageNames.has(app.entry)`
checkSR1andSR2(program, pNames, cNames) ==
    IF program.app.entry = "" \/ trim(program.app.entry) = "" THEN "SR-1"
    ELSE IF program.app.entry \notin pNames THEN "SR-2"
    ELSE "none"

(***************************************************************************)
(* SR-6                                                                    *)
(***************************************************************************)
RECURSIVE SeenTwice(_, _)
SeenTwice(decls, seen) ==
    IF decls = <<>> THEN FALSE
    ELSE IF Head(decls).name \in seen THEN TRUE
    ELSE SeenTwice(Tail(decls), seen \cup {Head(decls).name})

RECURSIVE collectActions(_)
collectActions(stmts) ==
    IF stmts = <<>> THEN EmptyBag
    ELSE LET stmt == Head(stmts)
             own == IF stmt.kind \in {"SubmitStmt", "ClickStmt"}
                    THEN SetToBag({stmt.action}) ELSE EmptyBag
             nested == IF stmt.kind = "ConditionalStmt"
                       THEN collectActions(stmt.body) ELSE EmptyBag
         IN  own (+) nested (+) collectActions(Tail(stmts))

checkActionUniqueness(stmts) ==
    LET counts == collectActions(stmts)
    IN  IF \E a \in DOMAIN counts : counts[a] > 1 THEN "SR-6" ELSE "none"

RECURSIVE checkActionsOfScopes(_)
checkActionsOfScopes(decls) ==
    IF decls = <<>> THEN "none"
    ELSE LET e == checkActionUniqueness(Head(decls).body)
         IN  IF e # "none" THEN e ELSE checkActionsOfScopes(Tail(decls))

\* mutant: pages and components share one namespace
checkSR6NamesSharedNamespace(program) ==
    IF SeenTwice(program.pages \o program.components, {}) THEN "SR-6"
    ELSE LET e == checkActionsOfScopes(program.pages)
         IN  IF e # "none" THEN e
             ELSE checkActionsOfScopes(program.components)

checkSR6Names(program) ==
    IF SeenTwice(program.pages, {}) THEN "SR-6"
    ELSE IF SeenTwice(program.components, {}) THEN "SR-6"
    ELSE LET e == checkActionsOfScopes(program.pages)
         IN  IF e # "none" THEN e
             ELSE checkActionsOfScopes(program.components)

(***************************************************************************)
(* SR-7                                                                    *)
(***************************************************************************)
RECURSIVE assertNoQueryInStatements(_)
assertNoQueryInStatements(stmts) ==
    IF stmts = <<>> THEN "none"
    ELSE LET stmt == Head(stmts)
         IN  IF stmt.kind = "QueryStmt" THEN "SR-7"
             ELSE LET e == IF stmt.kind = "ConditionalStmt"
                           THEN assertNoQueryInStatements(stmt.body)
                           ELSE "none"
                  IN  IF e # "none" THEN e
                      ELSE assertNoQueryInStatements(Tail(stmts))

RECURSIVE checkSR7QueryInPagesOnly(_)
checkSR7QueryInPagesOnly(components) ==
    IF components = <<>> THEN "none"
    ELSE LET e == assertNoQueryInStatements(Head(components).body)
         IN  IF e # "none" THEN e
             ELSE checkSR7QueryInPagesOnly(Tail(components))

(***************************************************************************)
(* SR-8: st = [err, seen, paramSet]; seen and paramSet are the two Set     *)
(* objects collectQueryKeys receives and mutates.                          *)
(***************************************************************************)
RECURSIVE collectQueryKeys(_, _)
\* mutant: the names declared inside a conditional are checked for
\* duplicates and not added to the set of the page
collectQueryKeysOutsideConditionals(stmts, st) ==
    IF st.err # "none" \/ stmts = <<>> THEN st
    ELSE LET stmt == Head(stmts)
             st1 == IF stmt.kind = "QueryStmt"
                    THEN IF stmt.name \in st.seen
                         THEN [st EXCEPT !.err = "SR-8"]
                         ELSE [st EXCEPT !.seen = @ \cup {stmt.name},
                                         !.paramSet = @ \cup {stmt.name}]
                    ELSE st
             st2 == IF stmt.kind = "ConditionalStmt"
                    THEN [collectQueryKeys(stmt.body, st1)
                              EXCEPT !.paramSet = st1.paramSet]
                    ELSE st1
         IN  collectQueryKeys(Tail(stmts), st2)

\* mutant: the body of a conditional is checked against a fresh `seen`
collectQueryKeysFreshSeen(stmts, st) ==
    IF st.err # "none" \/ stmts = <<>> THEN st
    ELSE LET stmt == Head(stmts)
             st1 == IF stmt.kind = "QueryStmt"
                    THEN IF stmt.name \in st.seen
                         THEN [st EXCEPT !.err = "SR-8"]
                         ELSE [st EXCEPT !.seen = @ \cup {stmt.name},
                                         !.paramSet = @ \cup {stmt.name}]
                    ELSE st
             st2 == IF stmt.kind = "ConditionalStmt"
                    THEN LET in == collectQueryKeys(stmt.body,
                                                    [st1 EXCEPT !.seen = {}])
                         IN  [in EXCEPT !.seen = st1.seen]
                    ELSE st1
         IN  collectQueryKeys(Tail(stmts), st2)

collectQueryKeys(stmts, st) ==
    IF st.err # "none" \/ stmts = <<>> THEN st
    ELSE LET stmt == Head(stmts)
             st1 == IF stmt.kind = "QueryStmt"
                    THEN IF stmt.name \in st.seen
                         THEN [st EXCEPT !.err = "SR-8"]
                         ELSE [st EXCEPT !.seen = @ \cup {stmt.name},
                                         !.paramSet = @ \cup {stmt.name}]
                    ELSE st
             st2 == IF stmt.kind = "ConditionalStmt"
                    THEN collectQueryKeys(stmt.body, st1)
                    ELSE st1
         IN  collectQueryKeys(Tail(stmts), st2)

\* returns [err, qp]: the error raised (or "none") and pageQueryParams afterwards
RECURSIVE checkSR8UniqueQueryKeys(_, _)
checkSR8UniqueQueryKeys(pages, qp) ==
    IF pages = <<>> THEN [err |-> "none", qp |-> qp]
    ELSE LET page == Head(pages)
             st == collectQueryKeys(page.body,
                       [err |-> "none", seen |-> {}, paramSet |-> qp[page.name]])
             qp1 == [qp EXCEPT ![page.name] = st.paramSet]
         IN  IF st.err # "none" THEN [err |-> st.err, qp |-> qp1]
             ELSE checkSR8UniqueQueryKeys(Tail(pages), qp1)

(***************************************************************************)
(* SR-3 / SR-9                                                             *)
(***************************************************************************)
RECURSIVE firstUndeclaredArg(_, _)
firstUndeclaredArg(queryArgs, targetParams) ==
    IF queryArgs = <<>> THEN "none"
    ELSE IF Head(queryArgs).key \notin targetParams THEN "SR-9"
    ELSE firstUndeclaredArg(Tail(queryArgs), targetParams)

\* mutant: an argument key is accepted when any page declares it
validateNavTargetAnyPage(nav, pNames, qp) ==
    IF nav = <<>> THEN "TypeError"
    ELSE IF nav[1].target \notin pNames THEN "SR-3"
    ELSE firstUndeclaredArg(nav[1].queryArgs, UNION {qp[n] : n \in DOMAIN qp})

\* nav is the optional stmt.nav: <<>> is undefined, and reading nav.target
\* of undefined is a TypeError
validateNavTarget(nav, pNames, qp) ==
    IF nav = <<>> THEN "TypeError"
    ELSE IF nav[1].target \notin pNames THEN "SR-3"
    ELSE firstUndeclaredArg(nav[1].queryArgs, qp[nav[1].target])

RECURSIVE checkHandlerNav(_, _)
checkHandlerNav(outcomes, pNames) ==
    IF outcomes = <<>> THEN "none"
    ELSE IF Head(outcomes).target \notin pNames THEN "SR-3"
    ELSE checkHandlerNav(Tail(outcomes), pNames)

RECURSIVE checkNavInStatements(_, _, _)
\* mutant: conditionals are not entered
checkNavInStatementShallow(stmt, pNames, qp) ==
    IF stmt.kind \in {"ButtonStmt", "LinkStmt"}
    THEN validateNavTarget(stmt.nav, pNames, qp)
    ELSE IF stmt.kind = "HandlerStmt"
    THEN checkHandlerNav(stmt.outcomes, pNames)
    ELSE "none"

checkNavInStatement(stmt, pNames, qp) ==
    IF stmt.kind \in {"ButtonStmt", "LinkStmt"}
    THEN validateNavTarget(stmt.nav, pNames, qp)
    ELSE IF stmt.kind = "HandlerStmt"
    THEN checkHandlerNav(stmt.outcomes, pNames)
    ELSE IF stmt.kind = "ConditionalStmt"
    THEN checkNavInStatements(stmt.body, pNames, qp)
    ELSE "none"

checkNavInStatements(stmts, pNames, qp) ==
    IF stmts = <<>> THEN "none"
    ELSE LET e == checkNavInStatement(Head(stmts), pNames, qp)
         IN  IF e # "none" THEN e
             ELSE checkNavInStatements(Tail(stmts), pNames, qp)

RECURSIVE checkNavInDecls(_, _, _)
checkNavInDecls(decls, pNames, qp) ==
    IF decls = <<>> THEN "none"
    ELSE LET e == checkNavInStatements(Head(decls).body, pNames, qp)
         IN  IF e # "none" THEN e
             ELSE checkNavInDecls(Tail(decls), pNames, qp)

collectAndCheckNavTargets(program, pNames, qp) ==
    LET e == checkNavInDecls(program.pages, pNames, qp)
    IN  IF e # "none" THEN e
        ELSE checkNavInDecls(program.components, pNames, qp)

(***************************************************************************)
(* SR-5: use-existence, then DFS cycle detection                           *)
(***************************************************************************)
RECURSIVE collectUsedComponents(_)
collectUsedComponents(stmts) ==
    IF stmts = <<>> THEN <<>>
    ELSE LET stmt == Head(stmts)
             own == IF stmt.kind = "UseStmt" THEN <<stmt.component>> ELSE <<>>
             nested == IF stmt.kind = "ConditionalStmt"
                       THEN collectUsedComponents(stmt.body) ELSE <<>>
         IN  own \o nested \o collectUsedComponents(Tail(stmts))

\* usesMap.set(comp.name, ...) for each component in order: the last
\* declaration of a name wins
UsesMap(components) ==
    [n \in NamesOf(components) |->
        LET last == CHOOSE i \in DOMAIN components :
                        /\ components[i].name = n
                        /\ \A j \in DOMAIN components :
                               components[j].name = n => j <= i
        IN  collectUsedComponents(components[last].body)]

RECURSIVE allUsesDefined(_, _)
allUsesDefined(used, cNames) ==
    IF used = <<>> THEN "none"
    ELSE IF Head(used) \notin cNames THEN "SR-6"
    ELSE allUsesDefined(Tail(used), cNames)

RECURSIVE checkComponentUses(_, _, _)
checkComponentUses(components, usesMap, cNames) ==
    IF components = <<>> THEN "none"
    ELSE LET e == allUsesDefined(usesMap[Head(components).name], cNames)
         IN  IF e # "none" THEN e
             ELSE checkComponentUses(Tail(components), usesMap, cNames)

RECURSIVE checkPageUses(_, _)
checkPageUses(pages, cNames) ==
    IF pages = <<>> THEN "none"
    ELSE LET e == allUsesDefined(collectUsedComponents(Head(pages).body), cNames)
         IN  IF e # "none" THEN e
             ELSE checkPageUses(Tail(pages), cNames)

\* st = [err, visited, inStack]
RECURSIVE dfs(_, _, _)
RECURSIVE dfsDeps(_, _, _)
\* mutant: the memo test comes before the current-path test
dfsVisitedFirst(name, usesMap, st) ==
    IF st.err # "none" THEN st
    ELSE IF name \in st.visited THEN st
    ELSE IF name \in st.inStack THEN [st EXCEPT !.err = "SR-5"]
    ELSE LET st1 == [st EXCEPT !.inStack = @ \cup {name},
                               !.visited = @ \cup {name}]
             deps == IF name \in DOMAIN usesMap THEN usesMap[name] ELSE <<>>
             st2 == dfsDeps(deps, usesMap, st1)
         IN  IF st2.err # "none" THEN st2
             ELSE [st2 EXCEPT !.inStack = @ \ {name}]

\* mutant: a finished component is never taken off the current path
dfsNoPop(name, usesMap, st) ==
    IF st.err # "none" THEN st
    ELSE IF name \in st.inStack THEN [st EXCEPT !.err = "SR-5"]
    ELSE IF name \in st.visited THEN st
    ELSE LET st1 == [st EXCEPT !.inStack = @ \cup {name},
                               !.visited = @ \cup {name}]
             deps == IF name \in DOMAIN usesMap THEN usesMap[name] ELSE <<>>
         IN  dfsDeps(deps, usesMap, st1)

dfs(name, usesMap, st) ==
    IF st.err # "none" THEN st
    ELSE IF name \in st.inStack THEN [st EXCEPT !.err = "SR-5"]
    ELSE IF name \in st.visited THEN st
    ELSE LET st1 == [st EXCEPT !.inStack = @ \cup {name},
                               !.visited = @ \cup {name}]
             deps == IF name \in DOMAIN usesMap THEN usesMap[name] ELSE <<>>
             st2 == dfsDeps(deps, usesMap, st1)
         IN  IF st2.err # "none" THEN st2
             ELSE [st2 EXCEPT !.inStack = @ \ {name}]

dfsDeps(deps, usesMap, st) ==
    IF st.err # "none" \/ deps = <<>> THEN st
    ELSE dfsDeps(Tail(deps), usesMap, dfs(Head(deps), usesMap, st))

\* `for (const name of this.componentNames)`: a Set iterates in insertion
\* order, which is the order of the component declarations
RECURSIVE dfsAll(_, _, _)
dfsAll(components, usesMap, st) ==
    IF st.err # "none" \/ components = <<>> THEN st
    ELSE dfsAll(Tail(components), usesMap,
                dfs(Head(components).name, usesMap, st))

\* returns [err, visited, inStack]
checkSR5ComponentCycles(program, cNames) ==
    LET usesMap == UsesMap(program.components)
        start == [err |-> "none", visited |-> {}, inStack |-> {}]
        e1 == checkComponentUses(program.components, usesMap, cNames)
        e2 == checkPageUses(program.pages, cNames)
    IN  IF e1 # "none" THEN [start EXCEPT !.err = e1]
        ELSE IF e2 # "none" THEN [start EXCEPT !.err = e2]
        ELSE dfsAll(program.components, usesMap, start)

(***************************************************************************)
(* SR-4 (strict mode): BFS over the page-navigation graph                  *)
(***************************************************************************)
\* returns [err, targets]; stmt.nav.target of a button without nav is a
\* TypeError
RECURSIVE navTargetsOf(_)
navTargetsOf(stmts) ==
    IF stmts = <<>> THEN [err |-> "none", targets |-> <<>>]
    ELSE LET stmt == Head(stmts)
             own == IF stmt.kind \in {"ButtonStmt", "LinkStmt"}
                    THEN IF stmt.nav = <<>>
                         THEN [err |-> "TypeError", targets |-> <<>>]
                         ELSE [err |-> "none", targets |-> <<stmt.nav[1].target>>]
                    ELSE IF stmt.kind = "HandlerStmt"
                    THEN [err |-> "none",
                          targets |-> [i \in DOMAIN stmt.outcomes |->
                                          stmt.outcomes[i].target]]
                    ELSE IF stmt.kind = "ConditionalStmt"
                    THEN navTargetsOf(stmt.body)
                    ELSE [err |-> "none", targets |-> <<>>]
             rest == IF own.err # "none" THEN own ELSE navTargetsOf(Tail(stmts))
         IN  IF own.err # "none" THEN own
             ELSE IF rest.err # "none" THEN rest
             ELSE [err |-> "none", targets |-> own.targets \o rest.targets]

LastDecl(decls, n) ==
    decls[CHOOSE i \in DOMAIN decls :
              /\ decls[i].name = n
              /\ \A j \in DOMAIN decls : decls[j].name = n => j <= i]

RECURSIVE usedComponentTargets(_, _)
usedComponentTargets(body, compNavTargets) ==
    IF body = <<>> THEN <<>>
    ELSE LET stmt == Head(body)
             own == IF stmt.kind = "UseStmt"
                       /\ stmt.component \in DOMAIN compNavTargets
                    THEN compNavTargets[stmt.component] ELSE <<>>
         IN  own \o usedComponentTargets(Tail(body), compNavTargets)

SelectNotIn(seq, S) == SelectSeq(seq, LAMBDA t : t \notin S)

\* the while loop over queue; st = [err, reachable]
RECURSIVE bfs(_, _, _, _)
bfs(queue, pages, compNavTargets, st) ==
    IF st.err # "none" \/ queue = <<>> THEN st
    ELSE LET name == Head(queue)
             rest == Tail(queue)
         IN  IF name \in st.reachable
             THEN bfs(rest, pages, compNavTargets, st)
             ELSE LET reach1 == st.reachable \cup {name}
                  IN  IF name \notin NamesOf(pages)
                      THEN bfs(rest, pages, compNavTargets,
                               [st EXCEPT !.reachable = reach1])
                      ELSE LET page == LastDecl(pages, name)
                               direct == navTargetsOf(page.body)
                               viaUse == usedComponentTargets(page.body,
                                                              compNavTargets)
                           IN  IF direct.err # "none"
                               THEN [err |-> direct.err, reachable |-> reach1]
                               ELSE bfs(rest \o SelectNotIn(direct.targets, reach1)
                                             \o SelectNotIn(viaUse, reach1),
                                        pages, compNavTargets,
                                        [st EXCEPT !.reachable = reach1])

\* mutant: a component also has the targets of the components it uses
checkSR4ReachabilityThroughUses(program) ==
    LET comps == program.components
        compErr == \E i \in DOMAIN comps : navTargetsOf(comps[i].body).err # "none"
        ownTargets == [n \in NamesOf(comps) |->
                           navTargetsOf(LastDecl(comps, n).body).targets]
        compNavTargets == [n \in NamesOf(comps) |->
                               ownTargets[n]
                               \o usedComponentTargets(LastDecl(comps, n).body,
                                                       ownTargets)]
        st == bfs(<<program.app.entry>>, program.pages, compNavTargets,
                  [err |-> "none", reachable |-> {}])
    IN  IF compErr THEN [err |-> "TypeError", reachable |-> {}]
        ELSE IF st.err # "none" THEN st
        ELSE IF \E i \in DOMAIN program.pages :
                    program.pages[i].name \notin st.reachable
        THEN [st EXCEPT !.err = "SR-4"]
        ELSE st

\* mutant: the search starts from the first declared page, not from entry
checkSR4ReachabilityFromFirstPage(program) ==
    LET comps == program.components
        compErr == \E i \in DOMAIN comps : navTargetsOf(comps[i].body).err # "none"
        compNavTargets == [n \in NamesOf(comps) |->
                               navTargetsOf(LastDecl(comps, n).body).targets]
        st == bfs(<<program.pages[1].name>>, program.pages, compNavTargets,
                  [err |-> "none", reachable |-> {}])
    IN  IF compErr THEN [err |-> "TypeError", reachable |-> {}]
        ELSE IF st.err # "none" THEN st
        ELSE IF \E i \in DOMAIN program.pages :
                    program.pages[i].name \notin st.reachable
        THEN [st EXCEPT !.err = "SR-4"]
        ELSE st

\* returns [err, reachable]
checkSR4Reachability(program) ==
    LET comps == program.components
        compErr == \E i \in DOMAIN comps : navTargetsOf(comps[i].body).err # "none"
        compNavTargets == [n \in NamesOf(comps) |->
                               navTargetsOf(LastDecl(comps, n).body).targets]
        st == bfs(<<program.app.entry>>, program.pages, compNavTargets,
                  [err |-> "none", reachable |-> {}])
    IN  IF compErr THEN [err |-> "TypeError", reachable |-> {}]
        ELSE IF st.err # "none" THEN st
        ELSE IF \E i \in DOMAIN program.pages :
                    program.pages[i].name \notin st.reachable
        THEN [st EXCEPT !.err = "SR-4"]
        ELSE st

(***************************************************************************)
(* Bounds of the input programs                                            *)
(***************************************************************************)
MaxDepth == 2     \* nesting depth of conditionals around a statement
MaxBody == 2      \* statements per generated body
MaxArgs == 2      \* query arguments per navigation target
MaxDecls == 2     \* declarations per namespace in the naming family

RECURSIVE Wrap(_, _)
Wrap(stmt, k) == IF k = 0 THEN stmt ELSE ConditionalStmt(<<Wrap(stmt, k - 1)>>)

Nested(S) == {Wrap(s, k) : s \in S, k \in 0..MaxDepth}

(***************************************************************************)
(* Input family: entry and declaration names                               *)
(***************************************************************************)
NamePages ==
    SeqsUpTo({Decl(n, b) : n \in {"Home", "Widget", "About"},
                           b \in {<<>>, <<UseStmt("Widget")>>}}, MaxDecls)
NameComponents ==
    SeqsUpTo({Decl(n, <<>>) : n \in {"Widget", "Home"}}, MaxDecls)

(***************************************************************************)
(* Input family: submit / click actions                                    *)
(***************************************************************************)
ActionAtoms == {SubmitStmt("save"), ClickStmt("save"), SubmitStmt("load")}
ActionStmts ==
    Nested(ActionAtoms)
    \cup {ConditionalStmt(<<s, t>>) : s, t \in {SubmitStmt("save"), ClickStmt("load")}}
    \cup {HeaderStmt,
          TableStmt(<<"A">>, <<TableRow(<<StringLiteral("x")>>, <<<<SubmitStmt("save"), ClickStmt("save")>>>>)>>)}
ActionBodies == SeqsUpTo(ActionStmts, MaxBody)
ActionBodiesSmall == SeqsUpTo(ActionAtoms, 1)

(***************************************************************************)
(* Input family: navigation targets and query arguments                    *)
(***************************************************************************)
NavTargetNames == {"Home", "Search", "Widget", "Nowhere"}
QueryKeys == {"q", "page"}
ArgLists == SeqsUpTo(QueryKeys, MaxArgs) \ {<<>>}
Navs ==
    {NavTarget(t, <<>>) : t \in NavTargetNames}
    \cup {NavTarget(t, a) : t \in {"Home", "Search"}, a \in ArgLists}
RowActionBlocks ==
    {<<ButtonStmt(<<>>)>>,
     <<ButtonStmt(<<NavTarget("Nowhere", <<>>)>>)>>,
     <<ButtonStmt(<<NavTarget("Search", <<"q">>)>>), ButtonStmt(<<>>)>>}
NavAtoms ==
    {ButtonStmt(<<>>)}
    \cup {ButtonStmt(<<n>>) : n \in Navs}
    \cup {LinkStmt(n) : n \in {m \in Navs : Len(m.queryArgs) <= 1
                                            /\ m.target # "Home"}}
    \cup {HandlerStmt(o) : o \in SeqsUpTo({"Search", "Widget", "Nowhere"}, MaxBody)}
    \cup {TableStmt(<<"A">>, <<TableRow(<<StringLiteral("x")>>, <<>>)>>)}
    \cup {TableStmt(<<"A">>, <<TableRow(<<StringLiteral("x")>>, <<b>>)>>) : b \in RowActionBlocks}
NavSmall ==
    {QueryStmt("page"), ButtonStmt(<<>>), HeaderStmt,
     ButtonStmt(<<NavTarget("Search", <<"q">>)>>),
     LinkStmt(NavTarget("Nowhere", <<>>))}
NavBodiesRich ==
    {<<s>> \o pad : s \in Nested(NavAtoms), pad \in SeqsUpTo(NavSmall, MaxBody - 1)}
    \cup {pad \o <<s>> : s \in Nested(NavAtoms), pad \in SeqsUpTo(NavSmall, MaxBody - 1)}
NavBodiesOne == {<<s>> : s \in Nested(NavAtoms)}
QueryBodies ==
    SeqsUpTo({QueryStmt(k) : k \in QueryKeys}, MaxBody)
    \cup {<<s>> : s \in Nested({QueryStmt(k) : k \in QueryKeys})}
    \cup {<<QueryStmt("q"), ConditionalStmt(<<QueryStmt("q")>>)>>,
          <<QueryStmt("page"), ButtonStmt(<<NavTarget("Search", <<"page">>)>>)>>,
          <<ButtonStmt(<<NavTarget("Search", <<"q">>)>>), QueryStmt("q")>>}
QueryBodiesSmall ==
    {<<>>, <<QueryStmt("q")>>, <<ConditionalStmt(<<QueryStmt("page")>>)>>,
     <<QueryStmt("q"), QueryStmt("page")>>}
WidgetBodies ==
    {<<>>, <<QueryStmt("q")>>, <<ConditionalStmt(<<QueryStmt("q")>>)>>,
     <<LinkStmt(NavTarget("Nowhere", <<>>))>>,
     <<ButtonStmt(<<NavTarget("Search", <<"page">>)>>)>>,
     <<HandlerStmt(<<"Home", "Widget">>)>>}

(***************************************************************************)
(* Input family: component composition (use statements)                    *)
(***************************************************************************)
CompNames == {"A", "B", "C"}
UseAtoms == {UseStmt(c) : c \in CompNames}
UseBodies ==
    SeqsUpTo(UseAtoms, MaxBody)
    \cup {<<s>> : s \in Nested(UseAtoms \cup {UseStmt("Nowhere")})}
UseBodiesSmall == SeqsUpTo(UseAtoms, 1)
UseBodiesLast ==
    UseBodiesSmall
    \cup {<<UseStmt("Nowhere")>>, <<ConditionalStmt(<<UseStmt("A")>>)>>,
          <<UseStmt("A"), UseStmt("B")>>}
UsePageBodies ==
    {<<>>, <<UseStmt("A")>>, <<UseStmt("Home")>>,
     <<ButtonStmt(<<>>), UseStmt("Nowhere")>>,
     <<ButtonStmt(<<>>)>>,
     <<LinkStmt(NavTarget("A", <<>>))>>}
    \cup {<<s>> : s \in Nested({UseStmt("B"), UseStmt("Nowhere")})}
DiamondBodies == {<<>>, <<UseStmt("D")>>, <<UseStmt("C")>>}

(***************************************************************************)
(* Input family: query declarations                                        *)
(***************************************************************************)
QueryAtoms == {QueryStmt(k) : k \in QueryKeys}
QueryInRow(body) == TableStmt(<<"A">>, <<TableRow(<<StringLiteral("x")>>, <<body>>)>>)
QueryPageBodies ==
    SeqsUpTo(Nested(QueryAtoms), MaxBody)
    \cup {<<ConditionalStmt(<<QueryStmt("q"), QueryStmt("q")>>)>>,
          <<QueryInRow(<<QueryStmt("q"), QueryStmt("q")>>)>>,
          <<QueryStmt("page"), HeaderStmt, ConditionalStmt(<<QueryStmt("page")>>)>>}
QuerySearchBodies ==
    {<<>>, <<QueryStmt("q")>>, <<QueryStmt("q"), ConditionalStmt(<<QueryStmt("q")>>)>>}
QueryWidgetBodies ==
    {<<>>, <<HeaderStmt, Wrap(QueryStmt("q"), MaxDepth)>>,
     <<QueryInRow(<<QueryStmt("q")>>)>>}
    \cup {<<s>> : s \in Nested(QueryAtoms)}

(***************************************************************************)
(* Input family: page navigation graph                                     *)
(***************************************************************************)
ReachPages == {"Home", "About", "Contact"}
ReachAtoms ==
    {LinkStmt(NavTarget(t, <<>>)) : t \in ReachPages}
    \cup {ButtonStmt(<<NavTarget("About", <<>>)>>),
          HandlerStmt(<<"Contact">>), HandlerStmt(<<"Home", "About">>),
          UseStmt("Menu"), UseStmt("Footer"),
          TableStmt(<<"A">>, <<TableRow(<<StringLiteral("x")>>, <<<<LinkStmt(NavTarget("Contact", <<>>))>>>>)>>)}
ReachSmall == {UseStmt("Footer"), ButtonStmt(<<>>), LinkStmt(NavTarget("Menu", <<>>))}
ReachHomeBodies ==
    {<<s>> \o pad : s \in Nested(ReachAtoms), pad \in SeqsUpTo(ReachSmall, MaxBody - 1)}
ReachAboutBodies ==
    {<<>>, <<LinkStmt(NavTarget("Contact", <<>>))>>, <<UseStmt("Menu")>>,
     <<ConditionalStmt(<<HandlerStmt(<<"Home">>)>>)>>}
ReachMenuBodies ==
    {<<>>, <<LinkStmt(NavTarget("Contact", <<>>))>>,
     <<ConditionalStmt(<<ButtonStmt(<<NavTarget("About", <<>>)>>)>>)>>}
ReachFooterBodies ==
    {<<>>, <<UseStmt("Menu")>>, <<HandlerStmt(<<"About", "Contact">>)>>}

\* source texts: tables and charts of every shape within the bounds, a
\* keyword in the place of a name, and whole programs that follow or break
\* the top-level grammar
MaxCells == 2
MaxRows == 2
MaxPoints == 2
MaxSeries == 2
MaxCalls == 2

RECURSIVE Concats(_, _)
Concats(S, n) ==
    IF n = 0 THEN {""}
    ELSE {""} \cup {a \o b : a \in S, b \in Concats(S, n - 1)}
RECURSIVE Repeat(_, _, _)
Repeat(first, more, n) ==
    IF n = 0 THEN "" ELSE IF n = 1 THEN first
    ELSE Repeat(first, more, n - 1) \o more

Prelude == "app A { entry Home } page Home { "
RowText(n) == " row [" \o Repeat("\"x\"", ", \"x\"", n) \o "]"
TableTexts ==
    {Prelude \o "table T { columns [" \o Repeat("\"A\"", ", \"A\"", c) \o "]"
             \o rows \o " } }" :
        c \in 0..MaxCells,
        rows \in Concats({RowText(n) : n \in 0..MaxCells}, MaxRows)}
SeriesText(n) ==
    " series \"s\" {" \o Repeat(" point 1, 2", " point 1, 2", n) \o " }"
ChartTexts ==
    {Prelude \o "chart C " \o type \o " {" \o series \o " } }" :
        type \in {"pie", "bar"},
        series \in Concats({SeriesText(n) : n \in 0..MaxPoints}, MaxSeries)}
FieldTexts == {Prelude \o "field " \o k \o " }" : k \in KEYWORDS \cup {"name"}}
NameTexts ==
    UNION {{"app A { entry Home } page Home { } page " \o k \o " { }",
            Prelude \o "submit \"x\" -> " \o k \o " }",
            Prelude \o "on save { " \o k \o " -> Home } }",
            Prelude \o "if a." \o k \o " { } }"} : k \in {"email", "row", "name"}}
ProgramTexts ==
    {"",
     "app A { entry Home }",
     "app A { entry Home } page Home { } component W { } page B { }",
     "app A { entry Home } page Home { use W } component W { link \"b\" -> Home }",
     "page Home { }",
     "page Home { } app A { entry Home }",
     "app A { entry Home } app B { entry Home }",
     "app A { entry Home } page Home { } header \"x\"",
     "app A { entry Home } page Home { } }",
     "app A { entry Home } page Home {",
     "app A { entry Home",
     "app A { entry Home } \"page\" Home { }",
     "\"app\" A { entry Home } page Home { }",
     "app A LBRACE entry Home RBRACE page Home { }",
     "app A { \"entry\" Home } page Home { }",
     "app A { entry Home } page Home { RBRACE"}
CallTexts ==
    {"app A { entry Home }\npage Home {\n  link \"x\" -> Home\n}",
     "app A { entry Home } page Home { } page B { }",
     "app A { entry Home } page Home { field password }",
     "app A {\n  entry Home }\npage Home { $ }"}
\* texts with a character sequence no rule matches, on the first line or
\* on a later one, and texts in which the same characters are inside a
\* comment or a string
LexPrefixes ==
    {"", "app A { entry Home }\n",
     "app A { entry Home }\npage Home {\n  header \"x\" "}
BadFragments == {"-", "|", "#", "$", "\"abc", "- #"}
LexSuffixes == {"", " }"}
LexTexts ==
    {pre \o bad \o post :
        pre \in LexPrefixes, bad \in BadFragments, post \in LexSuffixes}
QuotedTexts ==
    {Prelude \o "// - | # $ \"abc\n}", Prelude \o "header \"- | # $\" }",
     Prelude \o "link \"x\" -> Home if a || b { } }"}
\* statement blocks, each as the body of a page and as the action block of
\* a table row; the block is on the second line in both texts
BlockTexts ==
    {"", "button \"a\" -> Home", "button \"b\"",
     "submit \"s\" -> save click \"c\" -> del",
     "if a == 1 { link \"x\" -> Home }",
     "table U { columns [\"B\"] row [1] { button \"n\" } row [2] }",
     "button \"a\" -> Home button \"b\" submit \"s\" -> save",
     "button", "header 1", "text \"t\" 5"}
PageOf(block) == "app A { entry Home } page Home {\n" \o block \o "\n}"
RowOf(block) ==
    "app A { entry Home } page Home { table T { columns [\"A\"] row [\"x\"] {\n"
    \o block \o "\n} row [\"y\"] } }"
RowBlockTexts == {PageOf(b) : b \in BlockTexts} \cup {RowOf(b) : b \in BlockTexts}
\* expressions as sequences of lexemes, an operand followed by operator
\* and operand pairs, and the places of the grammar that hold an
\* expression: the condition of an `if`, a table cell, a query argument
MaxOperands == 3
ComparisonLexemes == {"==", "!=", "<", ">", "<=", ">="}
OperatorLexemes == {"||", "&&", "==", "+"}
OperandLexemes == {"a", "!b"}
RECURSIVE LexemeSeqs(_)
LexemeSeqs(n) ==
    IF n = 1 THEN {<<x>> : x \in OperandLexemes}
    ELSE LexemeSeqs(n - 1) \cup
         {e \o <<o, x>> : e \in LexemeSeqs(n - 1),
                           o \in OperatorLexemes, x \in OperandLexemes}
RECURSIVE Join(_)
Join(lexemes) ==
    IF lexemes = <<>> THEN ""
    ELSE IF Len(lexemes) = 1 THEN lexemes[1]
    ELSE lexemes[1] \o " " \o Join(Tail(lexemes))
ExampleExprs ==
    {"a || b && c", "a + b == c + d", "a + b + c", "!a + b", "query.page + 1"}
Chains ==
    {<<"x", o1, "y + 1", o2, "z">> : o1 \in ComparisonLexemes,
                                      o2 \in ComparisonLexemes}
CondOf(e) == Prelude \o "if " \o e \o " { } }"
CellOf(e) == Prelude \o "table T { columns [\"A\"] row [" \o e \o "] } }"
ArgOf(e) == Prelude \o "link \"x\" -> Home?k=" \o e \o " }"
\* numbers with more digits than a double holds
NumberExprs ==
    {"0.10000000000000000001 == 0.1", "1.0000000000000001 == 1",
     "9007199254740993 == 9007199254740992", "0.1 + 0.25"}
ExprTexts ==
    {CondOf(Join(e)) : e \in LexemeSeqs(MaxOperands)}
    \cup {CondOf(e) : e \in NumberExprs}
    \cup {CondOf(e) : e \in ExampleExprs}
    \cup {CondOf(Join(c)) : c \in Chains} \cup {CellOf(Join(c)) : c \in Chains}
    \cup {ArgOf(Join(c)) : c \in Chains}
ParseTexts ==
    RowBlockTexts \cup TableTexts \cup ChartTexts \cup FieldTexts \cup NameTexts \cup ProgramTexts
    \cup CallTexts \cup LexTexts \cup QuotedTexts \cup ExprTexts

(***************************************************************************)
(* parse() and SemanticChecker.check()                                     *)
(***************************************************************************)
\* a source given by its text: the call is parse(text, options)
Concrete(text) == [text |-> text]
IsConcrete(src) == "text" \in DOMAIN src

\* a Program its caller built: the call is checkSemantics(p, options), the
\* exported function parse() calls with the Program parseSource returned.
\* No text is lexed or parsed in such a call.
Direct(p) == [program |-> p]

NoWork ==
    [roots |-> <<>>, frames |-> <<>>, queue |-> <<>>, entered |-> <<>>,
     processed |-> <<>>]

InitWith(src) ==
    /\ source = src
    /\ lexer = CompiledLexer
    /\ history = <<>>
    /\ errorAt = <<>>
    /\ strictMode \in BOOLEAN
    /\ pc = IF IsConcrete(src) THEN "parse" ELSE "new"
    /\ ast = IF IsConcrete(src) THEN <<>> ELSE <<src.program>>
    /\ error = "none"
    /\ returned = <<>>
    /\ pageNames = {}
    /\ componentNames = {}
    /\ pageQueryParams = <<>>
    /\ visited = {}
    /\ inStack = {}
    /\ reachable = {}
    /\ work = NoWork

Raise(e) == /\ error' = e
            /\ pc' = "raised"

Continue(e, label) == IF e # "none" THEN Raise(e)
                      ELSE error' = error /\ pc' = label

\* `const program = parseSource(source)` in parse(): the Parser constructor
\* resets the module-level lexer to the input and lexes the whole of it,
\* then parseProgram builds the Program.
\* parse() after parseSource ended with the outcome r: an error leaves
\* parse(), a Program goes on to checkSemantics
ParseSourceWith(r) ==
    /\ lexer' = r.lexer
    /\ errorAt' = r.at
    /\ IF r.err # "none" THEN Raise(r.err) /\ ast' = ast
       ELSE /\ ast' = r.program
            /\ pc' = "new"
            /\ error' = error

ParseSource ==
    /\ pc = "parse"
    /\ IsConcrete(source)
    /\ ParseSourceWith(parseSource(source.text, lexer))
    /\ UNCHANGED <<work, source, history, strictMode, returned, pageNames,
                   componentNames, pageQueryParams, visited, inStack,
                   reachable>>

\* mutant: the constructor takes the page declarations out of the Program
\* while it collects their names
NewSemanticCheckerDrainingPages ==
    /\ pc = "new"
    /\ pageNames' = NamesOf(ast[1].pages)
    /\ componentNames' = NamesOf(ast[1].components)
    /\ pageQueryParams' = EmptyQueryParams(ast[1])
    /\ ast' = <<[ast[1] EXCEPT !.pages = <<>>]>>
    /\ pc' = "SR1SR2"
    /\ UNCHANGED <<work, source, lexer, history, errorAt, strictMode, error,
                   returned, visited, inStack, reachable>>

NewSemanticChecker ==
    /\ pc = "new"
    /\ pageNames' = NamesOf(ast[1].pages)
    /\ componentNames' = NamesOf(ast[1].components)
    /\ pageQueryParams' = EmptyQueryParams(ast[1])
    /\ pc' = "SR1SR2"
    /\ UNCHANGED <<work, source, lexer, history, errorAt, strictMode, ast, error,
                   returned, visited, inStack, reachable>>

CheckSR1andSR2 ==
    /\ pc = "SR1SR2"
    /\ Continue(checkSR1andSR2(ast[1], pageNames, componentNames), "SR6")
    /\ UNCHANGED <<work, source, lexer, history, errorAt, strictMode, ast, returned,
                   pageNames, componentNames, pageQueryParams, visited,
                   inStack, reachable>>

\* mutant: a duplicate name is recorded and the next group runs all the same
CheckSR6NamesNotStopping ==
    /\ pc = "SR6"
    /\ error' = checkSR6Names(ast[1])
    /\ pc' = "SR7"
    /\ UNCHANGED <<work, source, lexer, history, errorAt, strictMode, ast, returned,
                   pageNames, componentNames, pageQueryParams, visited,
                   inStack, reachable>>

CheckSR6Names ==
    /\ pc = "SR6"
    /\ Continue(checkSR6Names(ast[1]), "SR7")
    /\ UNCHANGED <<work, source, lexer, history, errorAt, strictMode, ast, returned,
                   pageNames, componentNames, pageQueryParams, visited,
                   inStack, reachable>>

CheckSR7QueryInPagesOnly ==
    /\ pc = "SR7"
    /\ Continue(checkSR7QueryInPagesOnly(ast[1].components), "SR8")
    /\ UNCHANGED <<work, source, lexer, history, errorAt, strictMode, ast, returned,
                   pageNames, componentNames, pageQueryParams, visited,
                   inStack, reachable>>

CheckSR8UniqueQueryKeys ==
    /\ pc = "SR8"
    /\ LET r == checkSR8UniqueQueryKeys(ast[1].pages, pageQueryParams)
       IN  /\ pageQueryParams' = r.qp
           /\ Continue(r.err, "Nav")
    /\ UNCHANGED <<work, source, lexer, history, errorAt, strictMode, ast, returned,
                   pageNames, componentNames, visited, inStack, reachable>>

CollectAndCheckNavTargets ==
    /\ pc = "Nav"
    /\ Continue(collectAndCheckNavTargets(ast[1], pageNames, pageQueryParams),
                "SR5")
    /\ UNCHANGED <<work, source, lexer, history, errorAt, strictMode, ast, returned,
                   pageNames, componentNames, pageQueryParams, visited,
                   inStack, reachable>>

CheckSR5ComponentCycles ==
    /\ pc = "SR5"
    /\ LET r == checkSR5ComponentCycles(ast[1], componentNames)
       IN  /\ visited' = r.visited
           /\ inStack' = r.inStack
           /\ Continue(r.err, "SR4")
    /\ UNCHANGED <<work, source, lexer, history, errorAt, strictMode, ast, returned,
                   pageNames, componentNames, pageQueryParams, reachable>>

\* mutant: the reachability check runs whatever options.strictMode is
CheckSR4ReachabilityAlways ==
    /\ pc = "SR4"
    /\ LET r == checkSR4Reachability(ast[1])
       IN  /\ reachable' = r.reachable
           /\ Continue(r.err, "checked")
    /\ UNCHANGED <<work, source, lexer, history, errorAt, strictMode, ast, returned,
                   pageNames, componentNames, pageQueryParams, visited,
                   inStack>>

\* `if (this.options.strictMode) this.checkSR4Reachability()`
CheckSR4Reachability ==
    /\ pc = "SR4"
    /\ strictMode
    /\ LET r == checkSR4Reachability(ast[1])
       IN  /\ reachable' = r.reachable
           /\ Continue(r.err, "checked")
    /\ UNCHANGED <<work, source, lexer, history, errorAt, strictMode, ast, returned,
                   pageNames, componentNames, pageQueryParams, visited,
                   inStack>>

\* `if (this.options.strictMode)` is false: check() returns
SkipSR4 ==
    /\ pc = "SR4"
    /\ ~strictMode
    /\ pc' = "checked"
    /\ UNCHANGED <<work, source, lexer, history, errorAt, strictMode, ast, error,
                   returned, pageNames, componentNames, pageQueryParams,
                   visited, inStack, reachable>>

\* mutant: parse() returns the Program without calling checkSemantics
ReturnProgramUnchecked ==
    /\ pc \in {"new", "checked"}
    /\ IsConcrete(source)
    /\ returned' = ast
    /\ pc' = "returned"
    /\ UNCHANGED <<work, source, lexer, history, errorAt, strictMode, ast, error,
                   pageNames, componentNames, pageQueryParams, visited,
                   inStack, reachable>>

\* `return program` in parse()
ReturnProgram ==
    /\ pc = "checked"
    /\ IsConcrete(source)
    /\ returned' = ast
    /\ pc' = "returned"
    /\ UNCHANGED <<work, source, lexer, history, errorAt, strictMode, ast, error,
                   pageNames, componentNames, pageQueryParams, visited,
                   inStack, reachable>>

\* checkSemantics(program, options) called by itself returns after
\* checker.check(): it hands nothing to its caller
CheckSemanticsReturns ==
    /\ pc = "checked"
    /\ ~IsConcrete(source)
    /\ pc' = "returned"
    /\ UNCHANGED <<work, source, lexer, history, errorAt, strictMode, ast, error,
                   returned, pageNames, componentNames, pageQueryParams,
                   visited, inStack, reachable>>

\* a later call parse(text, options) of the same module: the caller has the
\* outcome of the call before; the Parser, the Program and the checker's
\* tables of this call are new objects, the module-level lexer is the one
\* the call before left behind
ParseAgain ==
    /\ pc \in {"raised", "returned"}
    /\ Len(history) + 1 < MaxCalls
    /\ history' = Append(history, [source |-> source,
                                   strictMode |-> strictMode,
                                   ast |-> ast,
                                   error |-> error,
                                   errorAt |-> errorAt])
    /\ \E text \in CallTexts : source' = Concrete(text)
    /\ strictMode' \in BOOLEAN
    /\ pc' = "parse"
    /\ ast' = <<>>
    /\ error' = "none"
    /\ errorAt' = <<>>
    /\ returned' = <<>>
    /\ pageNames' = {}
    /\ componentNames' = {}
    /\ pageQueryParams' = <<>>
    /\ visited' = {}
    /\ inStack' = {}
    /\ reachable' = {}
    /\ work' = NoWork
    /\ UNCHANGED lexer

Next ==
    \/ ParseSource
    \/ NewSemanticChecker
    \/ CheckSR1andSR2
    \/ CheckSR6Names
    \/ CheckSR7QueryInPagesOnly
    \/ CheckSR8UniqueQueryKeys
    \/ CollectAndCheckNavTargets
    \/ CheckSR5ComponentCycles
    \/ CheckSR4Reachability
    \/ SkipSR4
    \/ ReturnProgram

\* the steps of a call checkSemantics(program, options)
NextCheck ==
    \/ NewSemanticChecker
    \/ CheckSR1andSR2
    \/ CheckSR6Names
    \/ CheckSR7QueryInPagesOnly
    \/ CheckSR8UniqueQueryKeys
    \/ CollectAndCheckNavTargets
    \/ CheckSR5ComponentCycles
    \/ CheckSR4Reachability
    \/ SkipSR4
    \/ CheckSemanticsReturns

(***************************************************************************)
(* checkSR5ComponentCycles and checkSR4Reachability call by call: one      *)
(* action per call of dfs, per return of dfs, per turn of the while loop   *)
(***************************************************************************)
TopFrame == work.frames[Len(work.frames)]

\* the use-existence loops, then `const visited`, `const inStack` and the
\* start of `for (const name of this.componentNames)`
CheckUsesDefined ==
    /\ pc = "SR5"
    /\ LET usesMap == UsesMap(ast[1].components)
           e1 == checkComponentUses(ast[1].components, usesMap, componentNames)
           e2 == checkPageUses(ast[1].pages, componentNames)
       IN  IF e1 # "none" THEN Raise(e1) /\ work' = work
           ELSE IF e2 # "none" THEN Raise(e2) /\ work' = work
           ELSE /\ pc' = "dfs"
                /\ error' = error
                /\ work' = [work EXCEPT
                               !.roots = [i \in DOMAIN ast[1].components |->
                                             ast[1].components[i].name]]
    /\ visited' = {}
    /\ inStack' = {}
    /\ UNCHANGED <<source, lexer, history, errorAt, strictMode, ast, returned,
                   pageNames, componentNames, pageQueryParams, reachable>>

\* the next call dfs(name), from the for loop over the component names or
\* from the loop over the dependencies of the call in progress, after that
\* call is taken from its loop
PendingCall ==
    IF work.frames = <<>> THEN Head(work.roots) ELSE Head(TopFrame.deps)
AfterCall ==
    IF work.frames = <<>> THEN [work EXCEPT !.roots = Tail(@)]
    ELSE [work EXCEPT !.frames[Len(work.frames)].deps = Tail(@)]

\* mutant: a visited component is expanded again
DfsCallIgnoringVisited ==
    /\ pc = "dfs"
    /\ IF work.frames = <<>> THEN work.roots # <<>> ELSE TopFrame.deps # <<>>
    /\ LET name == PendingCall
           usesMap == UsesMap(ast[1].components)
       IN  IF name \in inStack
           THEN /\ Raise("SR-5")
                /\ work' = AfterCall
                /\ UNCHANGED <<visited, inStack>>
           ELSE /\ inStack' = inStack \cup {name}
                /\ visited' = visited \cup {name}
                /\ work' = [AfterCall EXCEPT
                               !.frames = Append(@, [name |-> name,
                                                     deps |-> usesMap[name]]),
                               !.entered = Append(@, name)]
                /\ UNCHANGED <<pc, error>>
    /\ UNCHANGED <<source, lexer, history, errorAt, strictMode, ast, returned,
                   pageNames, componentNames, pageQueryParams, reachable>>

\* a call dfs(name) up to its loop over usesMap.get(name)
DfsCall ==
    /\ pc = "dfs"
    /\ IF work.frames = <<>> THEN work.roots # <<>> ELSE TopFrame.deps # <<>>
    /\ LET name == PendingCall
           usesMap == UsesMap(ast[1].components)
       IN  IF name \in inStack
           THEN /\ Raise("SR-5")
                /\ work' = AfterCall
                /\ UNCHANGED <<visited, inStack>>
           ELSE IF name \in visited
           THEN /\ work' = AfterCall
                /\ UNCHANGED <<pc, error, visited, inStack>>
           ELSE /\ inStack' = inStack \cup {name}
                /\ visited' = visited \cup {name}
                /\ work' = [AfterCall EXCEPT
                               !.frames = Append(@, [name |-> name,
                                                     deps |-> usesMap[name]]),
                               !.entered = Append(@, name)]
                /\ UNCHANGED <<pc, error>>
    /\ UNCHANGED <<source, lexer, history, errorAt, strictMode, ast, returned,
                   pageNames, componentNames, pageQueryParams, reachable>>

\* `inStack.delete(name)` and the return of the call
DfsReturn ==
    /\ pc = "dfs"
    /\ work.frames # <<>>
    /\ TopFrame.deps = <<>>
    /\ inStack' = inStack \ {TopFrame.name}
    /\ work' = [work EXCEPT !.frames = SubSeq(@, 1, Len(@) - 1)]
    /\ UNCHANGED <<source, lexer, history, errorAt, strictMode, pc, ast, error,
                   returned, pageNames, componentNames, pageQueryParams,
                   visited, reachable>>

\* the for loop over the component names is over
DfsDone ==
    /\ pc = "dfs"
    /\ work.frames = <<>>
    /\ work.roots = <<>>
    /\ pc' = "SR4"
    /\ UNCHANGED <<work, source, lexer, history, errorAt, strictMode, ast,
                   error, returned, pageNames, componentNames, pageQueryParams,
                   visited, inStack, reachable>>

\* checkSR4Reachability up to its while loop
StartSR4Reachability ==
    /\ pc = "SR4"
    /\ strictMode
    /\ IF \E i \in DOMAIN ast[1].components :
              navTargetsOf(ast[1].components[i].body).err # "none"
       THEN Raise("TypeError") /\ work' = work
       ELSE /\ pc' = "bfs"
            /\ error' = error
            /\ work' = [work EXCEPT !.queue = <<ast[1].app.entry>>]
    /\ reachable' = {}
    /\ UNCHANGED <<source, lexer, history, errorAt, strictMode, ast, returned,
                   pageNames, componentNames, pageQueryParams, visited,
                   inStack>>

\* one turn of `while (queue.length > 0)`
BfsStep ==
    /\ pc = "bfs"
    /\ work.queue # <<>>
    /\ LET name == Head(work.queue)
           rest == Tail(work.queue)
           comps == ast[1].components
           compNavTargets == [n \in NamesOf(comps) |->
                                  navTargetsOf(LastDecl(comps, n).body).targets]
           reach1 == reachable \cup {name}
       IN  IF name \in reachable
           THEN /\ work' = [work EXCEPT !.queue = rest]
                /\ UNCHANGED <<pc, error, reachable>>
           ELSE /\ reachable' = reach1
                /\ IF name \notin NamesOf(ast[1].pages)
                   THEN /\ work' = [work EXCEPT !.queue = rest,
                                                !.processed = Append(@, name)]
                        /\ UNCHANGED <<pc, error>>
                   ELSE LET page == LastDecl(ast[1].pages, name)
                            direct == navTargetsOf(page.body)
                            viaUse == usedComponentTargets(page.body,
                                                           compNavTargets)
                        IN  IF direct.err # "none"
                            THEN /\ Raise(direct.err)
                                 /\ work' = [work EXCEPT
                                                !.queue = rest,
                                                !.processed = Append(@, name)]
                            ELSE /\ work' =
                                       [work EXCEPT
                                           !.queue =
                                               rest
                                               \o SelectNotIn(direct.targets, reach1)
                                               \o SelectNotIn(viaUse, reach1),
                                           !.processed = Append(@, name)]
                                 /\ UNCHANGED <<pc, error>>
    /\ UNCHANGED <<source, lexer, history, errorAt, strictMode, ast, returned,
                   pageNames, componentNames, pageQueryParams, visited,
                   inStack>>

\* the queue is empty: `for (const page of pages)` looks for a page that
\* was not reached
BfsDone ==
    /\ pc = "bfs"
    /\ work.queue = <<>>
    /\ IF \E i \in DOMAIN ast[1].pages : ast[1].pages[i].name \notin reachable
       THEN Raise("SR-4")
       ELSE pc' = "checked" /\ error' = error
    /\ UNCHANGED <<work, source, lexer, history, errorAt, strictMode, ast,
                   returned, pageNames, componentNames, pageQueryParams,
                   visited, inStack, reachable>>

NextLoops ==
    \/ NewSemanticChecker
    \/ CheckSR1andSR2
    \/ CheckSR6Names
    \/ CheckSR7QueryInPagesOnly
    \/ CheckSR8UniqueQueryKeys
    \/ CollectAndCheckNavTargets
    \/ CheckUsesDefined
    \/ DfsCall
    \/ DfsReturn
    \/ DfsDone
    \/ StartSR4Reachability
    \/ BfsStep
    \/ BfsDone
    \/ SkipSR4
    \/ CheckSemanticsReturns

\* Programs only a caller of checkSemantics can build: the entry is empty,
\* white space, or a name with white space at its end, which no identifier
\* of a text is
BlankEntries ==
    {"", " ", "\t", " \t ", "", "  ", "Home", " ", "﻿ "}
BlankEntryPages ==
    {<<Decl("Home", <<>>)>>, <<Decl(" ", <<>>)>>, <<Decl("", <<>>)>>,
     <<Decl("\t", <<>>), Decl("\t", <<>>)>>, <<Decl("", <<>>)>>,
     <<Decl("Home", <<>>)>>}

Init ==
    \/ \E e \in BlankEntries, ps \in BlankEntryPages :
           InitWith(Direct(Program(e, ps, <<>>)))
    \/ \E e \in {"Home", "Widget", "Missing"}, ps \in NamePages, cs \in NameComponents :
           InitWith(Direct(Program(e, ps, cs)))
Spec == Init /\ [][NextCheck]_vars

InitActions ==
    \E e \in {"Home", "Missing"}, b1 \in ActionBodies, b2 \in ActionBodiesSmall :
        \/ InitWith(Direct(Program(e, <<Decl("Home", b1)>>, <<Decl("Widget", b2)>>)))
        \/ InitWith(Direct(Program(e, <<Decl("Home", b2)>>, <<Decl("Widget", b1)>>)))
SpecActions == InitActions /\ [][NextCheck]_vars

InitNav ==
    \/ \E h \in NavBodiesRich, q \in QueryBodiesSmall :
           InitWith(Direct(Program("Home", <<Decl("Home", h), Decl("Search", q)>>,
                                 <<Decl("Widget", <<>>)>>)))
    \/ \E h \in NavBodiesOne, q \in QueryBodies, w \in WidgetBodies :
           \/ InitWith(Direct(Program("Home", <<Decl("Home", h), Decl("Search", q)>>,
                                    <<Decl("Widget", w)>>)))
           \/ InitWith(Direct(Program("Home", <<Decl("Search", q), Decl("Home", h)>>,
                                    <<Decl("Widget", w)>>)))
SpecNav == InitNav /\ [][NextCheck]_vars

InitUse ==
    \/ \E a \in UseBodies, b \in UseBodies, c \in UseBodiesLast :
           InitWith(Direct(Program("Home", <<Decl("Home", <<>>)>>,
                                 <<Decl("A", a), Decl("B", b), Decl("C", c)>>)))
    \/ \E e \in {"Home", "Missing"}, h \in UsePageBodies,
          a \in UseBodiesSmall, b \in UseBodiesSmall :
           InitWith(Direct(Program(e, <<Decl("Home", h)>>,
                                 <<Decl("A", a), Decl("B", b), Decl("C", <<>>)>>)))
    \/ \E b \in DiamondBodies, c \in DiamondBodies,
          d \in {<<>>, <<UseStmt("A")>>, <<UseStmt("D")>>} :
           InitWith(Direct(Program("Home", <<Decl("Home", <<UseStmt("A")>>)>>,
                                 <<Decl("A", <<UseStmt("B"), UseStmt("C")>>),
                                   Decl("B", b), Decl("C", c), Decl("D", d)>>)))
SpecUse == InitUse /\ [][NextCheck]_vars

InitQuery ==
    \E e \in {"Home", "Missing"}, h \in QueryPageBodies, q \in QuerySearchBodies,
       w \in QueryWidgetBodies :
        InitWith(Direct(Program(e, <<Decl("Home", h), Decl("Search", q)>>,
                              <<Decl("Widget", w)>>)))
SpecQuery == InitQuery /\ [][NextCheck]_vars

InitReach ==
    \E e \in {"Home", "About"}, h \in ReachHomeBodies, a \in ReachAboutBodies,
       m \in ReachMenuBodies, f \in ReachFooterBodies :
        InitWith(Direct(Program(e, <<Decl("Home", h), Decl("About", a),
                                   Decl("Contact", <<>>)>>,
                              <<Decl("Menu", m), Decl("Footer", f)>>)))
SpecReach == InitReach /\ [][NextCheck]_vars

\* programs that break any subset of the rule groups at once
OrderHomeNavs ==
    {<<>>, <<LinkStmt(NavTarget("Search", <<>>))>>,
     <<LinkStmt(NavTarget("Nowhere", <<>>))>>,
     <<LinkStmt(NavTarget("Search", <<"zz">>))>>}
OrderHomeUses == {<<>>, <<UseStmt("A")>>, <<UseStmt("Ghost")>>}
OrderSearchBodies ==
    {<<>>, <<QueryStmt("zz")>>, <<QueryStmt("q"), QueryStmt("q")>>}
OrderABodies ==
    {<<>>, <<UseStmt("B")>>, <<QueryStmt("q")>>,
     <<SubmitStmt("save"), ClickStmt("save")>>,
     <<UseStmt("B"), QueryStmt("q")>>}
OrderBBodies == {<<>>, <<UseStmt("A")>>, <<UseStmt("Ghost")>>}
InitOrder ==
    \E e \in {"Home", "Missing", " "}, second \in {"Search", "Home", " "},
       n \in OrderHomeNavs, u \in OrderHomeUses, q \in OrderSearchBodies,
       a \in OrderABodies, b \in OrderBBodies :
        InitWith(Direct(Program(e, <<Decl("Home", n \o u), Decl(second, q)>>,
                              <<Decl("A", a), Decl("B", b)>>)))
SpecOrder == InitOrder /\ [][NextCheck]_vars

\* programs whose page graph and component graph have cycles, self loops
\* and nodes with two ways in; the call runs to completion once it is made,
\* so every step that can be taken is taken
LoopHomeBodies ==
    {<<LinkStmt(NavTarget("About", <<>>))>>,
     <<LinkStmt(NavTarget("About", <<>>)), UseStmt("A")>>,
     <<LinkStmt(NavTarget("Home", <<>>))>>, <<UseStmt("A")>>}
LoopAboutBodies ==
    {<<>>, <<LinkStmt(NavTarget("Home", <<>>))>>,
     <<HandlerStmt(<<"Home", "Contact">>)>>,
     <<ConditionalStmt(<<LinkStmt(NavTarget("About", <<>>))>>)>>}
LoopContactBodies ==
    {<<>>, <<LinkStmt(NavTarget("Home", <<>>)), LinkStmt(NavTarget("About", <<>>))>>}
LoopABodies ==
    {<<>>, <<UseStmt("B"), UseStmt("C")>>, <<UseStmt("A")>>,
     <<LinkStmt(NavTarget("Contact", <<>>))>>}
LoopBBodies == {<<>>, <<UseStmt("C")>>, <<UseStmt("A")>>}
LoopCBodies ==
    {<<>>, <<UseStmt("B")>>,
     <<LinkStmt(NavTarget("Contact", <<>>)), LinkStmt(NavTarget("Contact", <<>>))>>}
InitLoops ==
    \E h \in LoopHomeBodies, a \in LoopAboutBodies, c \in LoopContactBodies,
       ca \in LoopABodies, cb \in LoopBBodies, cc \in LoopCBodies :
        InitWith(Direct(Program("Home", <<Decl("Home", h), Decl("About", a),
                                        Decl("Contact", c)>>,
                              <<Decl("A", ca), Decl("B", cb), Decl("C", cc)>>)))
SpecLoops == InitLoops /\ [][NextLoops]_vars /\ WF_vars(NextLoops)

InitParse == \E text \in ParseTexts : InitWith(Concrete(text))
SpecParse == InitParse /\ [][Next]_vars

NextCalls == Next \/ ParseAgain
InitCalls == \E text \in CallTexts : InitWith(Concrete(text))
SpecCalls == InitCalls /\ [][NextCalls]_vars

(***************************************************************************)
(* Vocabulary of the properties: what a program contains, stated over the  *)
(* positions of its statements rather than by the checker's traversals.    *)
(***************************************************************************)
Prog == source.program
Parsed == ast # <<>>
Terminal == pc \in {"raised", "returned"}
SemanticRuleCodes ==
    {"SR-1", "SR-2", "SR-3", "SR-4", "SR-5", "SR-6", "SR-7", "SR-8", "SR-9"}

\* <<path, stmt>> for every statement at the top level of a body or inside
\* its conditionals, at any depth (row action blocks are not entered)
RECURSIVE Occurrences(_, _)
Occurrences(stmts, prefix) ==
    UNION {{<<prefix \o <<i>>, stmts[i]>>}
           \cup (IF stmts[i].kind = "ConditionalStmt"
                 THEN Occurrences(stmts[i].body, prefix \o <<i>>)
                 ELSE {}) : i \in DOMAIN stmts}

OccurrencesOfKind(body, kinds) ==
    {o \in Occurrences(body, <<>>) : o[2].kind \in kinds}

Scopes(p) == Range(p.pages) \cup Range(p.components)
DeclaredPages(p) == {p.pages[i].name : i \in DOMAIN p.pages}
DeclaredComponents(p) == {p.components[i].name : i \in DOMAIN p.components}
EntryIsPage(p) == p.app.entry \in DeclaredPages(p)
\* the entry has no character other than white space
BlankEntry(p) ==
    \A i \in 1..Len(p.app.entry) :
        CharAt(p.app.entry, i)
            \in {" ", "\t", "\n", "\r", "\f", "", " ", " ", "﻿"}
ValidEntry(p) == ~BlankEntry(p) /\ EntryIsPage(p)

DupName(decls) ==
    \E i, j \in DOMAIN decls : i < j /\ decls[i].name = decls[j].name

DupAction(body) ==
    \E o1, o2 \in OccurrencesOfKind(body, {"SubmitStmt", "ClickStmt"}) :
        o1[1] # o2[1] /\ o1[2].action = o2[2].action

\* the action identifiers of the submit/click statements of a body, one
\* entry per statement, in the order of the text: the top level, the bodies
\* of conditionals and the action blocks of table rows
RECURSIVE ActionsAnywhere(_)
RECURSIVE ActionsInRows(_)
ActionsInRows(rows) ==
    IF rows = <<>> THEN <<>>
    ELSE (IF Head(rows).actions = <<>> THEN <<>>
          ELSE ActionsAnywhere(Head(rows).actions[1]))
         \o ActionsInRows(Tail(rows))
ActionsAnywhere(stmts) ==
    IF stmts = <<>> THEN <<>>
    ELSE (IF Head(stmts).kind \in {"SubmitStmt", "ClickStmt"}
          THEN <<Head(stmts).action>>
          ELSE IF Head(stmts).kind = "ConditionalStmt"
          THEN ActionsAnywhere(Head(stmts).body)
          ELSE IF Head(stmts).kind = "TableStmt"
          THEN ActionsInRows(Head(stmts).rows)
          ELSE <<>>)
         \o ActionsAnywhere(Tail(stmts))
\* two submit/click statements anywhere in the body use one identifier
DupActionAnywhere(body) ==
    \E i, j \in DOMAIN ActionsAnywhere(body) :
        i < j /\ ActionsAnywhere(body)[i] = ActionsAnywhere(body)[j]

UseTargets(body) ==
    {o[2].component : o \in OccurrencesOfKind(body, {"UseStmt"})}
BadUse(p) ==
    \E d \in Scopes(p) : ~(UseTargets(d.body) \subseteq DeclaredComponents(p))

PassesEntryAndNames(p) ==
    /\ ValidEntry(p)
    /\ ~DupName(p.pages)
    /\ ~DupName(p.components)
    /\ \A d \in Scopes(p) : ~DupAction(d.body)

QueryNames(body) == {o[2].name : o \in OccurrencesOfKind(body, {"QueryStmt"})}
DupQuery(body) ==
    \E o1, o2 \in OccurrencesOfKind(body, {"QueryStmt"}) :
        o1[1] # o2[1] /\ o1[2].name = o2[2].name
QueriesOk(p) ==
    /\ \A i \in DOMAIN p.components : QueryNames(p.components[i].body) = {}
    /\ \A i \in DOMAIN p.pages : ~DupQuery(p.pages[i].body)

\* the query names declared in the body of the page(s) named t
DeclaredQueries(p, t) ==
    UNION {QueryNames(p.pages[i].body) : i \in {j \in DOMAIN p.pages : p.pages[j].name = t}}

NavsIn(body) ==
    {o[2].nav[1] : o \in {x \in OccurrencesOfKind(body, {"ButtonStmt", "LinkStmt"}) :
                              x[2].nav # <<>>}}
OutcomeTargetsIn(body) ==
    {c.target : c \in UNION {Range(o[2].outcomes) :
                               o \in OccurrencesOfKind(body, {"HandlerStmt"})}}
TargetsIn(body) == {n.target : n \in NavsIn(body)} \cup OutcomeTargetsIn(body)

BadTarget(p) ==
    \E d \in Scopes(p) : ~(TargetsIn(d.body) \subseteq DeclaredPages(p))
UndeclaredArg(p) ==
    \E d \in Scopes(p) : \E n \in NavsIn(d.body) :
        /\ n.target \in DeclaredPages(p)
        /\ \E a \in Range(n.queryArgs) : a.key \notin DeclaredQueries(p, n.target)
NavlessButton(body) ==
    \E o \in OccurrencesOfKind(body, {"ButtonStmt"}) : o[2].nav = <<>>
NoNavlessButton(p) == \A d \in Scopes(p) : ~NavlessButton(d.body)

\* a button without nav inside the action block of a table row
NavlessButtonInRow(body) ==
    \E o \in OccurrencesOfKind(body, {"TableStmt"}) :
        \E r \in DOMAIN o[2].rows :
            /\ o[2].rows[r].actions # <<>>
            /\ NavlessButton(o[2].rows[r].actions[1])

\* the component composition graph and its cycles
UsesEdge(p, a, b) ==
    \E i \in DOMAIN p.components :
        p.components[i].name = a /\ b \in UseTargets(p.components[i].body)
Successors(p, S) == {b \in DeclaredComponents(p) : \E a \in S : UsesEdge(p, a, b)}
RECURSIVE ReachableIn(_, _, _)
ReachableIn(p, S, n) ==
    IF n = 0 THEN {}
    ELSE Successors(p, S) \cup ReachableIn(p, Successors(p, S), n - 1)
Cyclic(p) ==
    \E c \in DeclaredComponents(p) :
        c \in ReachableIn(p, {c}, Cardinality(DeclaredComponents(p)))

\* nothing that runs before the cycle detection raises
CleanBeforeCycleCheck(p) ==
    /\ PassesEntryAndNames(p)
    /\ QueriesOk(p)
    /\ ~BadTarget(p)
    /\ ~UndeclaredArg(p)
    /\ NoNavlessButton(p)
    /\ ~BadUse(p)

\* the page navigation graph: every statement of a body, inside conditionals
\* and inside the action blocks of table rows as well
RECURSIVE AllStatements(_)
AllStatements(stmts) ==
    UNION {{stmts[i]}
           \cup (IF stmts[i].kind = "ConditionalStmt"
                 THEN AllStatements(stmts[i].body)
                 ELSE IF stmts[i].kind = "TableStmt"
                 THEN UNION {AllStatements(stmts[i].rows[r].actions[1]) :
                                r \in {k \in DOMAIN stmts[i].rows :
                                          stmts[i].rows[k].actions # <<>>}}
                 ELSE {}) : i \in DOMAIN stmts}
EdgeTargets(body) ==
    {st.nav[1].target : st \in {x \in AllStatements(body) :
                                    /\ x.kind \in {"ButtonStmt", "LinkStmt"}
                                    /\ x.nav # <<>>}}
    \cup {c.target : c \in UNION {Range(st.outcomes) :
                                    st \in {x \in AllStatements(body) :
                                               x.kind = "HandlerStmt"}}}
UsedIn(body) ==
    {st.component : st \in {x \in AllStatements(body) : x.kind = "UseStmt"}}
\* an edge a -> b: page a names b in its own body or in the body of a
\* component it uses
PageEdge(p, a, b) ==
    \E i \in DOMAIN p.pages :
        /\ p.pages[i].name = a
        /\ \/ b \in EdgeTargets(p.pages[i].body)
           \/ \E j \in DOMAIN p.components :
                  /\ p.components[j].name \in UsedIn(p.pages[i].body)
                  /\ b \in EdgeTargets(p.components[j].body)
RECURSIVE PagesWithin(_, _, _)
PagesWithin(p, S, n) ==
    IF n = 0 THEN S
    ELSE PagesWithin(p, S \cup {b \in DeclaredPages(p) : \E a \in S : PageEdge(p, a, b)},
                     n - 1)
ReachablePages(p) == PagesWithin(p, {p.app.entry}, Cardinality(DeclaredPages(p)))
UnreachablePages(p) == DeclaredPages(p) \ ReachablePages(p)

\* nothing that runs before the reachability check raises
CleanBeforeReachability(p) == CleanBeforeCycleCheck(p) /\ ~Cyclic(p)

(***************************************************************************)
(* SemanticChecker.check() as one function of the program: the first error *)
(* in the order of the calls, or "none"                                    *)
(***************************************************************************)
check(p, strict) ==
    LET pn == NamesOf(p.pages)
        cn == NamesOf(p.components)
        e1 == checkSR1andSR2(p, pn, cn)
        e6 == checkSR6Names(p)
        e7 == checkSR7QueryInPagesOnly(p.components)
        r8 == checkSR8UniqueQueryKeys(p.pages, EmptyQueryParams(p))
        e3 == collectAndCheckNavTargets(p, pn, r8.qp)
        r5 == checkSR5ComponentCycles(p, cn)
    IN  IF e1 # "none" THEN e1
        ELSE IF e6 # "none" THEN e6
        ELSE IF e7 # "none" THEN e7
        ELSE IF r8.err # "none" THEN r8.err
        ELSE IF e3 # "none" THEN e3
        ELSE IF r5.err # "none" THEN r5.err
        ELSE IF strict THEN checkSR4Reachability(p).err
        ELSE "none"

(***************************************************************************)
(* Properties                                                              *)
(***************************************************************************)

\* C1: parse hands a Program to its caller only after the lexer and the
\* parser accepted the text and every rule group of the checker (the
\* reachability group too in strict mode) ran on that same Program without
\* raising; when anything raises, parse ends in that error and hands over
\* no Program.
C1_ReturnsOnlyCheckedProgram ==
    /\ returned # <<>> =>
          /\ pc = "returned"
          /\ error = "none"
          /\ parseSource(source.text, lexer).err = "none"
          /\ returned = parseSource(source.text, lexer).program
          /\ check(returned[1], strictMode) = "none"
          /\ visited = DeclaredComponents(returned[1])
          /\ strictMode => DeclaredPages(returned[1]) \subseteq reachable
    /\ pc = "returned" => returned # <<>>
    /\ error # "none" <=> pc = "raised"
    /\ pc = "raised" => returned = <<>>
    /\ (Parsed /\ check(ast[1], strictMode) # "none") => returned = <<>>
    /\ (pc # "parse" /\ parseSource(source.text, lexer).err # "none") =>
          /\ pc = "raised"
          /\ error = parseSource(source.text, lexer).err
          /\ returned = <<>>

C1_Witness ==
    /\ pc = "returned"
    /\ returned = parseSource(source.text, lexer).program
    /\ strictMode
    /\ returned[1].components # <<>>

\* C3 as stated: once the entry check has run, SR-2 has been raised
\* whenever app.entry is not the name of a declared page, and not when it
\* names one.
C3_EntryNotPageAlwaysSR2 ==
    (Parsed /\ pc \notin {"new", "SR1SR2"}) =>
        /\ ~EntryIsPage(Prog) => error = "SR-2"
        /\ EntryIsPage(Prog) => error # "SR-2"

\* C3 amended: once the entry check has run, SR-2 has been raised exactly
\* when app.entry has a character other than white space and is not the
\* name of a declared page (a component name or an undefined name); an
\* entry that is empty or white space gives SR-1, whether or not a page has
\* that name; an entry naming a declared page never gives SR-2.
C3_EntryMustBePage ==
    (Parsed /\ pc \notin {"new", "SR1SR2"}) =>
        /\ error = "SR-2" <=> (~BlankEntry(Prog) /\ ~EntryIsPage(Prog))
        /\ error = "SR-1" <=> BlankEntry(Prog)

C3_Witness ==
    /\ error = "SR-2"
    /\ Prog.app.entry \in DeclaredComponents(Prog)

\* C4: for a program with a valid entry, two pages with one name or two
\* components with one name give SR-6, and SR-6 is raised only for a
\* duplicate page name, a duplicate component name, a duplicate action in a
\* scope or an undefined use: never for a page and a component sharing a name.
C4_NamesUniquePerNamespace ==
    (Terminal /\ Parsed /\ ValidEntry(Prog)) =>
        /\ (DupName(Prog.pages) \/ DupName(Prog.components)) => error = "SR-6"
        /\ error = "SR-6" =>
              \/ DupName(Prog.pages)
              \/ DupName(Prog.components)
              \/ \E d \in Scopes(Prog) : DupAction(d.body)
              \/ BadUse(Prog)

C4_Witness ==
    /\ pc = "returned"
    /\ DeclaredPages(Prog) \cap DeclaredComponents(Prog) # {}

\* C2: a button without a navigation target, at the top level of a page or
\* component body, inside a conditional or inside a table row's action
\* block, makes the checker raise nothing: the TypeError of reading
\* nav.target of an undefined nav never ends parse.
C2_ButtonWithoutNavIsValid ==
    (Terminal /\ Parsed /\ \E d \in Scopes(Prog) :
                               NavlessButton(d.body) \/ NavlessButtonInRow(d.body))
        => error # "TypeError"

\* C5: for a program whose entry is valid (the entry check runs first), an
\* action identifier used by two submit/click statements anywhere in one
\* scope's body -- at the top level, inside conditionals at any depth or
\* inside the action block of a table row -- gives SR-6; and SR-6 is raised
\* only for such a duplicate, a duplicate declaration name or an undefined
\* use, so the same action once in each of two scopes is no violation.
C5_DuplicateActionRaisesSR6 ==
    (Terminal /\ Parsed /\ ValidEntry(Prog)) =>
        /\ (\E d \in Scopes(Prog) : DupActionAnywhere(d.body)) => error = "SR-6"
        /\ error = "SR-6" =>
              \/ \E d \in Scopes(Prog) : DupActionAnywhere(d.body)
              \/ DupName(Prog.pages) \/ DupName(Prog.components)
              \/ BadUse(Prog)

\* C6 as stated: in a program that passes the entry and name-uniqueness
\* checks, a navigation or outcome target that is not a declared page
\* always gives SR-3.
C6_BadTargetAlwaysSR3 ==
    (Terminal /\ Parsed /\ PassesEntryAndNames(Prog) /\ BadTarget(Prog))
        => error = "SR-3"

\* C6 amended: such a program is never accepted.  The error is SR-3 unless
\* something that runs before the offending target is validated raises
\* first: SR-7 or SR-8 from the query checks, or SR-9 or a TypeError (button
\* without nav) from a statement the navigation pass visits earlier.  When
\* the queries are in order, every query argument is declared and every
\* button has a nav, the error is SR-3.
C6_BadTargetRejected ==
    (Terminal /\ Parsed /\ PassesEntryAndNames(Prog) /\ BadTarget(Prog)) =>
        /\ error \in {"SR-3", "SR-7", "SR-8", "SR-9", "TypeError"}
        /\ error \in {"SR-7", "SR-8"} => ~QueriesOk(Prog)
        /\ error = "SR-9" => UndeclaredArg(Prog)
        /\ error = "TypeError" => ~NoNavlessButton(Prog)

\* the offending target is a declared component named by a handler outcome
\* inside a conditional; every other target is a declared page
C6_Witness ==
    /\ error = "SR-3"
    /\ \A d \in Scopes(Prog) :
          {n.target : n \in NavsIn(d.body)} \subseteq DeclaredPages(Prog)
    /\ \E d \in Scopes(Prog) :
          \E o \in OccurrencesOfKind(d.body, {"HandlerStmt"}) :
              /\ Len(o[1]) > 1
              /\ \E c \in Range(o[2].outcomes) : c.target \in DeclaredComponents(Prog)

\* C7 as stated: SR-9 is raised if and only if some navigation target that
\* names a declared page carries an argument key the target page does not
\* declare.
C7_SR9IffUndeclaredArg ==
    (Terminal /\ Parsed) => (error = "SR-9" <=> UndeclaredArg(Prog))

\* C7 amended: SR-9 is raised only if some navigation target naming a
\* declared page carries a key that no query statement of the target page
\* (top level or inside conditionals) declares; a program with such a key
\* is never accepted, and its error is SR-9 whenever nothing that runs
\* earlier raises (entry, names, queries in order, every target a page,
\* every button with a nav).
C7_UndeclaredArgRejected ==
    (Terminal /\ Parsed) =>
        /\ error = "SR-9" => UndeclaredArg(Prog)
        /\ UndeclaredArg(Prog) => error # "none"
        /\ (/\ UndeclaredArg(Prog)
            /\ PassesEntryAndNames(Prog)
            /\ QueriesOk(Prog)
            /\ ~BadTarget(Prog)
            /\ NoNavlessButton(Prog)) => error = "SR-9"

\* the only undeclared key is one the navigating page declares and the
\* target page does not
C7_Witness ==
    /\ error = "SR-9"
    /\ \A d \in Scopes(Prog) : \A n \in NavsIn(d.body) :
          \A a \in Range(n.queryArgs) :
              \/ a.key \in DeclaredQueries(Prog, n.target)
              \/ a.key \in QueryNames(d.body)

\* C8 as stated: a cycle in the component composition graph always gives
\* SR-5.
C8_CycleAlwaysSR5 ==
    (Terminal /\ Parsed /\ Cyclic(Prog)) => error = "SR-5"

\* C8 amended: a program whose component composition graph has a cycle of
\* any length (a self-use included, uses inside conditionals included) is
\* never accepted, and the error is SR-5 whenever nothing that runs before
\* the cycle detection raises (the rule groups SR-1/SR-2, SR-6, SR-7, SR-8,
\* SR-3/SR-9 and the use-existence test).
C8_CycleRejected ==
    (Terminal /\ Parsed /\ Cyclic(Prog)) =>
        /\ error # "none"
        /\ CleanBeforeCycleCheck(Prog) => error = "SR-5"

\* a cycle through three components, none of which uses itself or is in a
\* cycle of two
C8_Witness ==
    /\ error = "SR-5"
    /\ \A a, b \in DeclaredComponents(Prog) :
          ~(UsesEdge(Prog, a, b) /\ UsesEdge(Prog, b, a))

\* C9: when the component composition graph has no cycle, SR-5 is never
\* raised, whatever the number of paths that lead to a component.
C9_NoCycleNoSR5 ==
    (Parsed /\ ~Cyclic(Prog)) => error # "SR-5"

\* A uses B and C, B and C both use D: D is met again after it finished
C9_Witness ==
    /\ pc = "returned"
    /\ UsesEdge(Prog, "A", "B") /\ UsesEdge(Prog, "A", "C")
    /\ UsesEdge(Prog, "B", "D") /\ UsesEdge(Prog, "C", "D")
    /\ visited = {"A", "B", "C", "D"}
    /\ inStack = {}

\* C10: a use statement, in a page or a component body, at the top level or
\* inside conditionals, that names no declared component makes the checker
\* raise a SemanticError; and SR-5 is raised only for a cycle among
\* components, never because of a use inside a page.
C10_BadUseRaisesSemanticError ==
    (Terminal /\ Parsed) =>
        /\ BadUse(Prog) => error \in SemanticRuleCodes
        /\ error = "SR-5" => Cyclic(Prog)

\* C11 as stated: in strict mode, a declared page that cannot be reached
\* from the entry page always gives SR-4 (stated for the programs in which
\* every button has a nav, so that no TypeError is involved).
C11_UnreachableAlwaysSR4 ==
    (Terminal /\ Parsed /\ strictMode /\ NoNavlessButton(Prog)
        /\ UnreachablePages(Prog) # {})
        => error = "SR-4"

\* C11 amended: in strict mode a program with a declared page that cannot
\* be reached from entry (following button, link and handler-outcome
\* targets of page bodies and of the bodies of the components the pages
\* use) is never accepted, and its error is SR-4 whenever nothing that runs
\* before the reachability check raises; every program accepted in strict
\* mode has all its declared pages reachable, and the set the search
\* computed contains only pages reachable in that graph.
C11_UnreachableRejected ==
    (Terminal /\ Parsed /\ strictMode) =>
        /\ UnreachablePages(Prog) # {} => error # "none"
        /\ (UnreachablePages(Prog) # {} /\ CleanBeforeReachability(Prog))
              => error = "SR-4"
        /\ pc = "returned" =>
              /\ UnreachablePages(Prog) = {}
              /\ DeclaredPages(Prog) \subseteq reachable
        /\ reachable \subseteq ReachablePages(Prog)

\* SR-4 for a page whose only incoming edge comes from a component that no
\* page uses
C11_Witness ==
    /\ error = "SR-4"
    /\ strictMode
    /\ \E t \in UnreachablePages(Prog) :
          /\ \E j \in DOMAIN Prog.components :
                 t \in EdgeTargets(Prog.components[j].body)
          /\ \A i \in DOMAIN Prog.pages : t \notin EdgeTargets(Prog.pages[i].body)

\* C12: the reachability check runs only in strict mode: without strictMode
\* (false, or omitted) SR-4 is never raised and the search never runs, and a
\* program whose only violation is an unreachable page is accepted: the
\* check returns without raising, which is when parse hands the Program
\* back (C1).
C12_ReachabilityOnlyInStrictMode ==
    /\ (error = "SR-4" \/ reachable # {}) => strictMode
    /\ (Terminal /\ Parsed /\ ~strictMode /\ CleanBeforeReachability(Prog)) =>
          /\ pc = "returned"
          /\ error = "none"

C12_Witness ==
    /\ pc = "returned"
    /\ ~strictMode
    /\ UnreachablePages(Prog) # {}
    /\ check(Prog, TRUE) = "SR-4"

\* C15: in a program that passes the entry and name-uniqueness checks and
\* whose pages declare no query name twice, a query statement anywhere in a
\* component body (top level, conditionals at any depth, action block of a
\* table row) gives SR-7, and SR-7 is raised only when some component body
\* contains a query statement.
C15_QueryInComponentRaisesSR7 ==
    (Terminal /\ Parsed /\ PassesEntryAndNames(Prog)
        /\ \A i \in DOMAIN Prog.pages : ~DupQuery(Prog.pages[i].body)) =>
        LET inComponent ==
                \E j \in DOMAIN Prog.components :
                    \E st \in AllStatements(Prog.components[j].body) :
                        st.kind = "QueryStmt"
        IN  /\ inComponent => error = "SR-7"
            /\ error = "SR-7" => inComponent

\* C16 as stated: two query statements of one page that declare the same
\* name always give SR-8.
C16_DuplicateQueryAlwaysSR8 ==
    (Terminal /\ Parsed /\ \E i \in DOMAIN Prog.pages : DupQuery(Prog.pages[i].body))
        => error = "SR-8"

\* C16 amended: a page in which two query statements declare the same name
\* (both at the top level, both inside conditionals, or one inside and one
\* outside) is never accepted, and the error is SR-8 whenever nothing that
\* runs before the query-key check raises (entry, names, no query in a
\* component); SR-8 is raised only for such a page, so the same name
\* declared once in each of two pages is not a violation.
C16_DuplicateQueryRejected ==
    (Terminal /\ Parsed) =>
        LET dup == \E i \in DOMAIN Prog.pages : DupQuery(Prog.pages[i].body)
        IN  /\ dup => error # "none"
            /\ (/\ dup
                /\ PassesEntryAndNames(Prog)
                /\ \A j \in DOMAIN Prog.components :
                       QueryNames(Prog.components[j].body) = {})
                  => error = "SR-8"
            /\ error = "SR-8" => dup

\* one declaration at the top level and one two conditionals deep in the
\* same page, and no two declarations of a name at one depth
C16_Witness ==
    /\ error = "SR-8"
    /\ \E i \in DOMAIN Prog.pages :
          /\ \E o1, o2 \in OccurrencesOfKind(Prog.pages[i].body, {"QueryStmt"}) :
                Len(o1[1]) = 1 /\ Len(o2[1]) = 3 /\ o1[2].name = o2[2].name
          /\ \A o1, o2 \in OccurrencesOfKind(Prog.pages[i].body, {"QueryStmt"}) :
                (o1[1] # o2[1] /\ o1[2].name = o2[2].name)
                    => Len(o1[1]) # Len(o2[1])

\* the statements of every declaration of a program, at any depth
ProgramStatements(program) ==
    UNION {AllStatements(program.pages[i].body) : i \in DOMAIN program.pages}
    \cup UNION {AllStatements(program.components[i].body) :
                   i \in DOMAIN program.components}
TablesOf(program) ==
    {st \in ProgramStatements(program) : st.kind = "TableStmt"}
ChartsOf(program) ==
    {st \in ProgramStatements(program) : st.kind = "ChartStmt"}
RaggedTable(t) ==
    \E r \in DOMAIN t.rows : Len(t.rows[r].cells) # Len(t.columns)
Accepted == pc = "returned" /\ error = "none"

\* C13: every table of an accepted program has at least one column, at
\* least one row and as many cells in every row as it has columns; a
\* program with a table one of whose rows has another number of cells than
\* there are columns ends with SR-10.
C13_TableShape ==
    /\ Accepted =>
          \A t \in TablesOf(ast[1]) :
              Len(t.columns) >= 1 /\ Len(t.rows) >= 1 /\ ~RaggedTable(t)
    /\ (Terminal /\ Parsed /\ \E t \in TablesOf(ast[1]) : RaggedTable(t))
          => error = "SR-10"

\* C14: every chart of an accepted program has at least one series, every
\* series has at least one point and a pie chart has exactly one series; a
\* program with a pie chart of two series ends with SR-14.
C14_ChartShape ==
    /\ Accepted =>
          \A c \in ChartsOf(ast[1]) :
              /\ Len(c.series) >= 1
              /\ \A i \in DOMAIN c.series : Len(c.series[i].points) >= 1
              /\ c.chartType = "pie" => Len(c.series) = 1
    /\ (/\ Terminal
        /\ Parsed
        /\ \E c \in ChartsOf(ast[1]) :
              c.chartType = "pie" /\ Len(c.series) = 2)
          => error = "SR-14"

\* C17: a keyword in the place of a name (the name of a field, of a page,
\* of an action, of an outcome, of a member) never gives a ParseError.
C17_KeywordAcceptedAsName ==
    (IsConcrete(source) /\ source.text \in FieldTexts \cup NameTexts)
        => error # "ParseError"

\* C18: the outcome of a parse call (the AST with its positions, or the
\* error and its position) is the one a first call on the same text has,
\* whatever calls came before and however they ended; a call on a text
\* parsed before gives the AST and the error that call gave.
C18_ParseIndependentOfEarlierCalls ==
    pc # "parse" =>
        /\ ast = parseSource(source.text, CompiledLexer).program
        /\ errorAt = parseSource(source.text, CompiledLexer).at
        /\ parseSource(source.text, CompiledLexer).err # "none"
              => error = parseSource(source.text, CompiledLexer).err
        /\ \A i \in DOMAIN history :
              history[i].source = source =>
                  /\ history[i].ast = ast
                  /\ history[i].errorAt = errorAt
                  /\ (Terminal /\ history[i].strictMode = strictMode)
                        => history[i].error = error

\* a call that parsed a text of several lines after a call that failed
\* part-way through lexing on a later line
C18_Witness ==
    /\ Len(history) = 1
    /\ history[1].error = "LexError"
    /\ Accepted
    /\ ast[1].pages[1].pos[1] > 1
    /\ lexer.line > 1

\* C19: from the moment checkSemantics has the Program until parse() ends,
\* no step changes the Program: every node and every position stays what
\* the parser built, whether the check returns or raises.
C19_CheckerLeavesProgram ==
    [][(pc # "parse" /\ pc' # "parse") => ast' = ast]_vars

\* the strict check has filled its tables, walked the pages and raised
C19_Witness ==
    /\ pc = "raised"
    /\ error = "SR-4"
    /\ IsConcrete(source)
    /\ Len(ast[1].pages) = 2
    /\ pageNames # {}
    /\ reachable # {}

\* the token types of a page or component declaration from token i on, up
\* to the brace that closes it, and of the declarations after it; depth is
\* the number of braces open
RECURSIVE DeclShapes(_, _, _)
DeclShapes(tokens, i, depth) ==
    IF depth = 0
    THEN \/ i > Len(tokens)
         \/ /\ i + 2 <= Len(tokens)
            /\ tokens[i].type \in {"page", "component"}
            /\ tokens[i + 1].type \in {"IDENT"} \cup KEYWORDS
            /\ tokens[i + 2].type = "LBRACE"
            /\ DeclShapes(tokens, i + 3, 1)
    ELSE /\ i <= Len(tokens)
         /\ DeclShapes(tokens, i + 1,
                       IF tokens[i].type = "LBRACE" THEN depth + 1
                       ELSE IF tokens[i].type = "RBRACE" THEN depth - 1
                       ELSE depth)
\* one app declaration, then page and component declarations to the end
ProgramShape(tokens) ==
    /\ Len(tokens) >= 6
    /\ tokens[1].type = "app"
    /\ tokens[2].type \in {"IDENT"} \cup KEYWORDS
    /\ tokens[3].type = "LBRACE"
    /\ tokens[4].type = "entry"
    /\ tokens[5].type \in {"IDENT"} \cup KEYWORDS
    /\ tokens[6].type = "RBRACE"
    /\ DeclShapes(tokens, 7, 0)
TokensOf(src) == Parser(src.text, CompiledLexer).tokens

\* C20: the parser returns a Program only for a token stream that is one
\* app declaration followed by page and component declarations up to the
\* last token; for any other stream it raises a ParseError placed at a
\* token of the stream (or at the end of the input) and leaves no Program.
C20_ParserAcceptsOnlyPrograms ==
    (pc # "parse" /\ IsConcrete(source) /\ error # "LexError") =>
        /\ ast # <<>> => ProgramShape(TokensOf(source))
        /\ ~ProgramShape(TokensOf(source)) =>
              /\ error = "ParseError"
              /\ ast = <<>>
              /\ \/ errorAt = EndOfInput
                 \/ \E i \in DOMAIN TokensOf(source) :
                       errorAt = tokenPos(TokensOf(source)[i])

\* C21: a text with a character sequence that no token rule matches (a lone
\* "-", "|", "#" or "$", a string that is never closed) makes parse fail
\* with a lexical error that carries the line and the column where that
\* sequence starts; no Program is built, nothing after the error is read
\* and the checker never runs.  The same characters inside a comment or a
\* string are no error.
C21_LexicalErrorAtOffendingText ==
    (pc # "parse" /\ IsConcrete(source)) =>
        /\ \A pre \in LexPrefixes, bad \in BadFragments, post \in LexSuffixes :
              source.text = pre \o bad \o post =>
                  /\ error = "LexError"
                  /\ errorAt = <<1 + CountNL(pre, 1),
                                 AfterLastNL(pre, Len(pre)) + 1>>
        /\ error = "LexError" =>
              /\ pc = "raised"
              /\ ast = <<>>
              /\ returned = <<>>
              /\ pageNames = {}
              /\ errorAt # <<>>
        /\ source.text \in QuotedTexts => error # "LexError"

\* an unclosed string on the third line, after tokens that were read
C21_Witness ==
    /\ pc = "raised"
    /\ error = "LexError"
    /\ errorAt = <<3, 14>>
    /\ IsConcrete(source)
    /\ source.text = "app A { entry Home }\npage Home {\n  header \"x\" \"abc }"

FirstTable(program) == program.pages[1].body[1]

\* C22: a row with no "{" after its cells has no actions; a row followed by
\* a block has as actions the statements a page body with the same text
\* has, in the same order and with the same positions, and a block that is
\* no page body is no action block either (same error, same position).
C22_RowActionsAreAStatementBlock ==
    (pc # "parse" /\ IsConcrete(source)) =>
        \A b \in BlockTexts :
            source.text = RowOf(b) =>
                /\ error \in {"ParseError", "LexError"} <=>
                      parseSource(PageOf(b), CompiledLexer).err # "none"
                /\ errorAt = parseSource(PageOf(b), CompiledLexer).at
                /\ ast # <<>> =>
                      /\ FirstTable(ast[1]).rows[1].actions =
                            <<parseSource(PageOf(b), CompiledLexer)
                                  .program[1].pages[1].body>>
                      /\ FirstTable(ast[1]).rows[2].actions = <<>>

\* the action block holds a button with a target, a button without one and
\* a submit, in the order of the text
C22_Witness ==
    /\ Accepted
    /\ IsConcrete(source)
    /\ \E b \in BlockTexts : source.text = RowOf(b)
    /\ Len(FirstTable(ast[1]).rows) = 2
    /\ FirstTable(ast[1]).rows[1].actions # <<>>
    /\ Len(FirstTable(ast[1]).rows[1].actions[1]) = 3
    /\ FirstTable(ast[1]).rows[1].actions[1][1].nav # <<>>
    /\ FirstTable(ast[1]).rows[1].actions[1][2].nav = <<>>
    /\ FirstTable(ast[1]).rows[1].actions[1][3].kind = "SubmitStmt"

\* the statements inside the action blocks of the table rows of a body
RowStatements(body) ==
    UNION {UNION {AllStatements(o[2].rows[r].actions[1]) :
                     r \in {k \in DOMAIN o[2].rows : o[2].rows[k].actions # <<>>}} :
              o \in OccurrencesOfKind(body, {"TableStmt"})}
RowNavs(p) ==
    UNION {{st.nav[1] : st \in {x \in RowStatements(d.body) :
                                   /\ x.kind \in {"ButtonStmt", "LinkStmt"}
                                   /\ x.nav # <<>>}} : d \in Scopes(p)}
RowBadTarget(p) == \E n \in RowNavs(p) : n.target \notin DeclaredPages(p)
RowUndeclaredArg(p) ==
    \E n \in RowNavs(p) :
        /\ n.target \in DeclaredPages(p)
        /\ \E a \in Range(n.queryArgs) : a.key \notin DeclaredQueries(p, n.target)

\* C23: in a program in which nothing outside the action blocks of table
\* rows raises, a button or link inside such a block whose target is no
\* declared page gives SR-3, and one whose target page does not declare a
\* key of its query arguments gives SR-9.
C23_RowActionsNavChecked ==
    (Terminal /\ Parsed /\ CleanBeforeCycleCheck(Prog)) =>
        /\ RowBadTarget(Prog) => error = "SR-3"
        /\ (~RowBadTarget(Prog) /\ RowUndeclaredArg(Prog)) => error = "SR-9"

\* the page graph in which a page has an edge to every target named in its
\* body or in the body of a component it uses, at the top level or inside
\* conditionals at any depth (the action blocks of table rows left aside)
NestedPageEdge(p, a, b) ==
    \E i \in DOMAIN p.pages :
        /\ p.pages[i].name = a
        /\ \/ b \in TargetsIn(p.pages[i].body)
           \/ \E j \in DOMAIN p.components :
                  /\ p.components[j].name \in UseTargets(p.pages[i].body)
                  /\ b \in TargetsIn(p.components[j].body)
RECURSIVE NestedPagesWithin(_, _, _)
NestedPagesWithin(p, S, n) ==
    IF n = 0 THEN S
    ELSE NestedPagesWithin(
             p, S \cup {b \in DeclaredPages(p) : \E a \in S : NestedPageEdge(p, a, b)},
             n - 1)
NestedReachablePages(p) ==
    NestedPagesWithin(p, {p.app.entry}, Cardinality(DeclaredPages(p)))

\* C24: in strict mode, when nothing before the reachability check raises
\* and every declared page can be reached from entry through targets and
\* uses at the top level or inside conditionals, SR-4 is not raised: a use
\* inside an `if` block gives its page the edges of the component.
C24_NestedUseContributesEdges ==
    (/\ Terminal
     /\ Parsed
     /\ strictMode
     /\ CleanBeforeReachability(Prog)
     /\ DeclaredPages(Prog) \subseteq NestedReachablePages(Prog))
        => error # "SR-4"

\* C25: when the navigation pass starts, the query-parameter set of every
\* page holds exactly the names its body declares, at the top level and
\* inside conditionals, whatever the order of the declarations; so SR-9 is
\* raised only for a key the target page does not declare.
C25_QueryIndexCompleteBeforeNav ==
    /\ (pc = "Nav" /\ Parsed) =>
          \A i \in DOMAIN Prog.pages :
              pageQueryParams[Prog.pages[i].name] = QueryNames(Prog.pages[i].body)
    /\ (Terminal /\ Parsed /\ error = "SR-9") => UndeclaredArg(Prog)

\* accepted: a page declared first passes a key to a page declared after
\* it, which declares the key inside a conditional
C25_Witness ==
    /\ pc = "returned"
    /\ Parsed
    /\ Len(Prog.pages) = 2
    /\ \E n \in NavsIn(Prog.pages[1].body) :
          /\ n.target = Prog.pages[2].name
          /\ n.queryArgs # <<>>
          /\ \A a \in Range(n.queryArgs) :
                \E o \in OccurrencesOfKind(Prog.pages[2].body, {"QueryStmt"}) :
                    o[2].name = a.key /\ Len(o[1]) > 1

\* the expressions of a parsed program: conditions, table cells, chart
\* coordinates and query argument values, with their subexpressions
RECURSIVE SubExprs(_)
SubExprs(e) ==
    {e} \cup (IF e.kind = "BinaryExpr"
              THEN SubExprs(e.left) \cup SubExprs(e.right)
              ELSE IF e.kind = "UnaryExpr" THEN SubExprs(e.operand)
              ELSE IF e.kind = "MemberExpr" THEN {e.object}
              ELSE {})
ExprsOfStatement(st) ==
    IF st.kind = "ConditionalStmt" THEN {st.condition}
    ELSE IF st.kind = "TableStmt"
    THEN UNION {Range(st.rows[r].cells) : r \in DOMAIN st.rows}
    ELSE IF st.kind = "ChartStmt"
    THEN UNION {UNION {{pt.x, pt.y} : pt \in Range(st.series[i].points)} :
                   i \in DOMAIN st.series}
    ELSE IF st.kind \in {"ButtonStmt", "LinkStmt"} /\ st.nav # <<>>
    THEN {a.value : a \in Range(st.nav[1].queryArgs)}
    ELSE {}
ExprsOf(program) ==
    UNION {UNION {SubExprs(e) : e \in ExprsOfStatement(st)} :
              st \in ProgramStatements(program)}
IsComparison(e) ==
    e.kind = "BinaryExpr" /\ e.operator \in ComparisonLexemes
ChainErrorAt(before, c) == <<1, Len(before \o Join(SubSeq(c, 1, 3))) + 2>>

\* C26: no comparison of a parsed program has a comparison as an operand,
\* and a text with two comparison operators at the same level, in a
\* condition, a table cell or a query argument, ends with a ParseError at
\* the second operator.
C26_ComparisonDoesNotChain ==
    (pc # "parse" /\ IsConcrete(source)) =>
        /\ Parsed =>
              \A e \in ExprsOf(ast[1]) :
                  IsComparison(e) =>
                      ~IsComparison(e.left) /\ ~IsComparison(e.right)
        /\ \A c \in Chains :
              /\ source.text = CondOf(Join(c)) =>
                    /\ error = "ParseError"
                    /\ errorAt = ChainErrorAt(Prelude \o "if ", c)
              /\ source.text = CellOf(Join(c)) =>
                    /\ error = "ParseError"
                    /\ errorAt = ChainErrorAt(
                                   Prelude \o "table T { columns [\"A\"] row [", c)
              /\ source.text = ArgOf(Join(c)) =>
                    /\ error = "ParseError"
                    /\ errorAt = ChainErrorAt(
                                   Prelude \o "link \"x\" -> Home?k=", c)

\* `if x == y + 1 < z { }` was rejected at the `<`
C26_Witness ==
    /\ pc = "raised"
    /\ IsConcrete(source)
    /\ source.text = CondOf("x == y + 1 < z")
    /\ error = "ParseError"
    /\ errorAt = <<1, 48>>

\* expression trees without positions, and the lexemes of a tree in order
Id(name) == [kind |-> "IdentifierExpr", name |-> name]
Num(value) == [kind |-> "NumberLiteral", value |-> value]
Member(object, member) ==
    [kind |-> "MemberExpr", object |-> Id(object), member |-> member]
Not(operand) == [kind |-> "UnaryExpr", operator |-> "!", operand |-> operand]
Bin(operator, left, right) ==
    [kind |-> "BinaryExpr", operator |-> operator, left |-> left, right |-> right]
RECURSIVE Shape(_)
Shape(e) ==
    IF e.kind = "BinaryExpr" THEN Bin(e.operator, Shape(e.left), Shape(e.right))
    ELSE IF e.kind = "UnaryExpr" THEN Not(Shape(e.operand))
    ELSE IF e.kind = "MemberExpr" THEN Member(e.object.name, e.member)
    ELSE IF e.kind = "IdentifierExpr" THEN Id(e.name)
    ELSE [kind |-> e.kind, value |-> e.value]
RECURSIVE Unparse(_)
Unparse(e) ==
    IF e.kind = "BinaryExpr"
    THEN Unparse(e.left) \o " " \o e.operator \o " " \o Unparse(e.right)
    ELSE IF e.kind = "UnaryExpr" THEN "!" \o Unparse(e.operand)
    ELSE IF e.kind = "MemberExpr" THEN e.object.name \o "." \o e.member
    ELSE IF e.kind = "IdentifierExpr" THEN e.name
    ELSE "?"
\* 1 for `||`, 2 for `&&`, 3 for a comparison, 4 for `+`, 5 for `!`, 6 for
\* a primary expression
Level(e) ==
    IF e.kind = "BinaryExpr"
    THEN IF e.operator = "||" THEN 1 ELSE IF e.operator = "&&" THEN 2
         ELSE IF e.operator = "+" THEN 4 ELSE 3
    ELSE IF e.kind = "UnaryExpr" THEN 5 ELSE 6
\* an operand binds at least as tightly as its operator on the left of a
\* left-associative operator, and more tightly everywhere else
InPrecedenceOrder(e) ==
    IF e.kind = "BinaryExpr"
    THEN /\ Level(e.left) >= (IF Level(e) = 3 THEN 4 ELSE Level(e))
         /\ Level(e.right) > Level(e)
    ELSE e.kind = "UnaryExpr" => Level(e.operand) = 6
TwoComparisons(lexemes) ==
    \E i, j \in DOMAIN lexemes :
        /\ i < j
        /\ lexemes[i] = "==" /\ lexemes[j] = "=="
        /\ \A k \in (i + 1)..(j - 1) : lexemes[k] \notin {"||", "&&"}
Condition(program) == program.pages[1].body[1].condition

\* C27: every expression of a parsed program follows the precedence order
\* `||` < `&&` < comparison < `+` < `!` < primary with `||`, `&&` and `+`
\* associating to the left; a condition made of operands and operators is
\* parsed unless it chains two comparisons, and its tree reads back as the
\* text; the five example expressions give the trees the specification
\* names.
C27_PrecedenceAndAssociativity ==
    (pc # "parse" /\ IsConcrete(source)) =>
        /\ Parsed => \A e \in ExprsOf(ast[1]) : InPrecedenceOrder(e)
        /\ \A l \in LexemeSeqs(MaxOperands) :
              source.text = CondOf(Join(l)) =>
                  /\ Parsed <=> ~TwoComparisons(l)
                  /\ ~Parsed => error = "ParseError"
                  /\ Parsed => Unparse(Condition(ast[1])) = Join(l)
        /\ source.text = CondOf("a || b && c") =>
              /\ Parsed
              /\ Shape(Condition(ast[1])) =
                     Bin("||", Id("a"), Bin("&&", Id("b"), Id("c")))
        /\ source.text = CondOf("a + b == c + d") =>
              /\ Parsed
              /\ Shape(Condition(ast[1])) =
                     Bin("==", Bin("+", Id("a"), Id("b")),
                               Bin("+", Id("c"), Id("d")))
        /\ source.text = CondOf("a + b + c") =>
              /\ Parsed
              /\ Shape(Condition(ast[1])) =
                     Bin("+", Bin("+", Id("a"), Id("b")), Id("c"))
        /\ source.text = CondOf("!a + b") =>
              /\ Parsed
              /\ Shape(Condition(ast[1])) = Bin("+", Not(Id("a")), Id("b"))
        /\ source.text = CondOf("query.page + 1") =>
              /\ Parsed
              /\ Shape(Condition(ast[1])) =
                     Bin("+", Member("query", "page"), Num(parseFloat("1")))

\* `a + b == c + d` was parsed into a comparison of two sums
C27_Witness ==
    /\ pc = "returned"
    /\ IsConcrete(source)
    /\ source.text = CondOf("a + b == c + d")
    /\ Parsed
    /\ Condition(ast[1]).operator = "=="
    /\ Condition(ast[1]).left.operator = "+"
    /\ Condition(ast[1]).right.operator = "+"

\* the components a body uses, directly or through the components it uses
RECURSIVE ComponentsWithin(_, _, _)
ComponentsWithin(p, S, n) ==
    IF n = 0 THEN S
    ELSE ComponentsWithin(
             p, S \cup UNION {UsedIn(p.components[j].body) :
                                j \in {k \in DOMAIN p.components :
                                          p.components[k].name \in S}},
             n - 1)
\* an edge a -> b that follows `use` through any number of components
DeepPageEdge(p, a, b) ==
    \E i \in DOMAIN p.pages :
        /\ p.pages[i].name = a
        /\ \/ b \in EdgeTargets(p.pages[i].body)
           \/ \E j \in DOMAIN p.components :
                  /\ p.components[j].name \in
                         ComponentsWithin(p, UsedIn(p.pages[i].body),
                                          Len(p.components))
                  /\ b \in EdgeTargets(p.components[j].body)
RECURSIVE DeepPagesWithin(_, _, _)
DeepPagesWithin(p, S, n) ==
    IF n = 0 THEN S
    ELSE DeepPagesWithin(
             p, S \cup {b \in DeclaredPages(p) : \E a \in S : DeepPageEdge(p, a, b)},
             n - 1)
DeepReachablePages(p) ==
    DeepPagesWithin(p, {p.app.entry}, Cardinality(DeclaredPages(p)))
OnlyDeeplyReachable(p) == DeepReachablePages(p) \ ReachablePages(p)

\* C28: in strict mode, when nothing before the reachability check raises,
\* a page that can be reached from entry only by following `use` through
\* more than one component (P uses A, A uses B, B names the page) is not in
\* the set the search computes, and the program ends with SR-4.
C28_OneLevelOfUse ==
    (/\ Terminal
     /\ Parsed
     /\ strictMode
     /\ CleanBeforeReachability(Prog)
     /\ OnlyDeeplyReachable(Prog) # {})
        => /\ error = "SR-4"
           /\ reachable \cap OnlyDeeplyReachable(Prog) = {}

\* Home uses Footer, Footer uses Menu, only Menu names Contact: SR-4
C28_Witness ==
    /\ pc = "raised"
    /\ error = "SR-4"
    /\ strictMode
    /\ Prog.app.entry = "Home"
    /\ "Footer" \in UsedIn(Prog.pages[1].body)
    /\ "Menu" \in UsedIn(Prog.components[2].body)
    /\ "Contact" \in EdgeTargets(Prog.components[1].body)
    /\ "Contact" \in OnlyDeeplyReachable(Prog)
    /\ "Contact" \notin reachable

\* the rule groups in the order of the calls of check(), each by what it
\* forbids, and the codes a group raises
ViolatesGroup(p, strict, g) ==
    IF g = 1 THEN ~ValidEntry(p)
    ELSE IF g = 2
    THEN DupName(p.pages) \/ DupName(p.components)
         \/ \E d \in Scopes(p) : DupAction(d.body)
    ELSE IF g = 3
    THEN \E i \in DOMAIN p.components : QueryNames(p.components[i].body) # {}
    ELSE IF g = 4 THEN \E i \in DOMAIN p.pages : DupQuery(p.pages[i].body)
    ELSE IF g = 5 THEN BadTarget(p) \/ UndeclaredArg(p)
    ELSE IF g = 6 THEN BadUse(p) \/ Cyclic(p)
    ELSE strict /\ UnreachablePages(p) # {}
GroupCodes(g) ==
    IF g = 1 THEN {"SR-1", "SR-2"} ELSE IF g = 2 THEN {"SR-6"}
    ELSE IF g = 3 THEN {"SR-7"} ELSE IF g = 4 THEN {"SR-8"}
    ELSE IF g = 5 THEN {"SR-3", "SR-9"} ELSE IF g = 6 THEN {"SR-5", "SR-6"}
    ELSE {"SR-4"}
Groups == 1..7
FirstViolated(p, strict, g) ==
    /\ ViolatesGroup(p, strict, g)
    /\ \A k \in 1..(g - 1) : ~ViolatesGroup(p, strict, k)

\* C29: check() ends with a code of the first group, in the order SR-1/SR-2,
\* SR-6, SR-7, SR-8, SR-3/SR-9, use existence and SR-5, SR-4 (strict mode),
\* that the program violates, and with no error when it violates none; an
\* undefined entry with duplicate page names gives SR-2 and an invalid
\* target with a component cycle gives SR-3; the groups after the failing
\* one leave no trace: no component was visited unless the navigation group
\* passed, no page was marked reachable unless the cycle group passed, and
\* no query name was recorded unless SR-7 passed.
C29_FirstViolatedGroupReported ==
    (Terminal /\ Parsed /\ NoNavlessButton(Prog)) =>
        /\ \A g \in Groups :
              FirstViolated(Prog, strictMode, g) =>
                  /\ error \in GroupCodes(g)
                  /\ g <= 5 => visited = {} /\ inStack = {}
                  /\ g <= 6 => reachable = {}
                  /\ g <= 3 => pageQueryParams = EmptyQueryParams(Prog)
        /\ (\A g \in Groups : ~ViolatesGroup(Prog, strictMode, g)) =>
              error = "none"
        /\ BlankEntry(Prog) => error = "SR-1"
        /\ (~BlankEntry(Prog) /\ ~EntryIsPage(Prog) /\ DupName(Prog.pages))
              => error = "SR-2"
        /\ (FirstViolated(Prog, strictMode, 5) /\ BadTarget(Prog) /\ Cyclic(Prog))
              => error = "SR-3"
        /\ (FirstViolated(Prog, strictMode, 6) /\ ~BadUse(Prog)) => error = "SR-5"

\* SR-3 for a program with an invalid target and a component cycle, and no
\* component visited
C29_Witness ==
    /\ pc = "raised"
    /\ Parsed
    /\ error = "SR-3"
    /\ BadTarget(Prog)
    /\ Cyclic(Prog)
    /\ visited = {}
    /\ reachable = {}

NoDuplicates(seq) == \A i, j \in DOMAIN seq : i # j => seq[i] # seq[j]

\* no component is expanded twice by dfs and no page name is processed
\* twice by the search; once the loop over the components is over without
\* an error no call is in progress and inStack is empty; and the outcome of
\* the loops is the outcome of the two checks taken as functions
LoopsExpandOnce ==
    /\ NoDuplicates(work.entered)
    /\ NoDuplicates(work.processed)
    /\ Range(work.entered) = visited
    /\ Range(work.processed) = reachable
    /\ (Parsed /\ pc \in {"SR4", "bfs", "checked", "returned"}) =>
          /\ inStack = {}
          /\ work.frames = <<>>
          /\ visited = DeclaredComponents(Prog)
    /\ (Parsed /\ Terminal) => error = check(Prog, strictMode)

\* C30: checkSemantics always ends, by returning or by raising, on programs
\* with cycles among the pages and among the components too; dfs expands
\* each component at most once and leaves inStack empty when it ends
\* without error, and the search processes each page name at most once.
C30_CheckTerminates == [](LoopsExpandOnce) /\ <>Terminal

\* returned in strict mode: Home and About name each other, C is used by A
\* and by B, and each of the three components and pages was expanded once
C30_Witness ==
    /\ pc = "returned"
    /\ strictMode
    /\ "About" \in EdgeTargets(Prog.pages[1].body)
    /\ "Home" \in EdgeTargets(Prog.pages[2].body)
    /\ UsedIn(Prog.components[1].body) = {"B", "C"}
    /\ UsedIn(Prog.components[2].body) = {"C"}
    /\ work.entered = <<"A", "B", "C">>
    /\ Len(work.processed) = 3
    /\ inStack = {}

====
